---- MODULE Spec2Model ----
(***************************************************************************)
(* A model of neurone_loader's container hierarchy (loader.py): a          *)
(* Recording holds Sessions, a Session holds Phases, and each level has a  *)
(* lazily computed data buffer, a channel list and a set of dropped        *)
(* channels.  Arrays are modelled as buffers in a heap and numpy views as  *)
(* row ranges of a buffer, so that aliasing is part of the state.          *)
(***************************************************************************)
EXTENDS Integers, Sequences, FiniteSets, TLC

VARIABLES
    sessions,   \* Recording.sessions: the Sessions in os.listdir order
    phases,     \* Session.phases: per Session, its Phases in protocol order
    dropped,    \* _dropped_channels of every node
    chans,      \* the Lazy slot _channels of every Phase and Session
    data,       \* the Lazy slot _data of every node: a view, or NoData
    heap,       \* the arrays that exist: buffer id -> rows of cells
    err,        \* the exception the last operation ended with, or NoErr
    loads,      \* the Phases the last operation read from source
    warned,     \* the logger.warning calls of the last operation
    last,       \* the last operation and its arguments
    steps,      \* number of operations made so far
    writes,     \* number of element writes made so far
    target,     \* the node the caller works on, or AnyNode: on all of them
    requested,  \* every name given to a drop_channels call so far
    usedInvalid, \* some drop_channels call named a channel not visible then
    ret,        \* what the last call of _has_data() or read of a count returned
    evTree,     \* the event files: per Session its Phases' events.bin and sizes
    evCache,    \* the Lazy slot _events of every Phase of evTree
    evOut,      \* the table the last read of events returned
    lz,         \* objects with a Lazy attribute: slots, compute calls, last value read
    disk,       \* the entries of the folder a Recording is constructed on
    cnt         \* the last to_mne call: its arguments and the RawArray returned

objectVars == <<sessions, phases, dropped, chans, data, heap, loads, warned,
                steps, writes, target, requested, usedInvalid, ret>>
eventVars == <<evTree, evCache, evOut>>
vars == <<objectVars, err, last, eventVars, lz, disk, cnt>>

(***************************************************************************)
(* The recording on disk.                                                  *)
(***************************************************************************)
MaxSteps == 3
MaxNodeSteps == 4
MaxWrites == 1
MaxMneSteps == 3
MaxConversions == 1

Rec == "rec"
Sessions == {"s1", "s2"}
Phases == {"p11", "p12", "p21"}
Nodes == {Rec} \cup Sessions \cup Phases
NodeOrder == <<"rec", "s1", "s2", "p11", "p12", "p21">>

SessionOf(p) == IF p = "p21" THEN "s2" ELSE "s1"
PhasesOf(s) == {p \in Phases : SessionOf(p) = s}
Descendants(n) ==
    IF n = Rec THEN Sessions \cup Phases
    ELSE IF n \in Sessions THEN PhasesOf(n) ELSE {}

\* phase['number']: the last component of the phase folder, a string of digits
PhaseNumber(p) == IF p = "p12" THEN <<2>> ELSE <<1>>
\* protocol['meta']['time_start'] of a Session
TimeStart(s) == IF s = "s1" THEN 1 ELSE 2
\* rows of the phase's binary file
FileSamples(p) == IF p = "p12" THEN 2 ELSE 1
\* protocol['channels'] of a Session, in physical input order: the list
\* disk.channels gives when the Sessions were recorded with protocols of
\* their own, the same three channels in every Session otherwise
ProtocolChannels(s) ==
    IF "channels" \in DOMAIN disk THEN disk.channels[s] ELSE <<"Fp1", "Fp2", "Cz">>
\* the names the drop_channels calls of the model choose from
DropNames == {"Fp1", "Fp2", "UnknownChannel"}
AnyNode == "any"
DropArgs(t) ==
    IF t = AnyNode
    THEN {{"Fp1"}, {"Fp2"}, {"UnknownChannel"}, {"Fp1", "UnknownChannel"}}
    ELSE SUBSET DropNames \ {{}}

NoErr == "none"
\* the last call was not one of _has_data()
NoRet == "none"
\* no folder is looked at, to_mne has not been called
NoDisk == <<>>
NoCnt == <<>>
\* no object with a Lazy attribute has been constructed
NoLazy == <<>>
NoCache == <<"?">>
NoData == [buf |-> 0, lo |-> 0, hi |-> 0]

(***************************************************************************)
(* Sequences, sorting and arrays.                                          *)
(***************************************************************************)
Range(seq) == {seq[i] : i \in 1..Len(seq)}
Min(a, b) == IF a < b THEN a ELSE b
MaxOf(S) == IF S = {} THEN 0 ELSE CHOOSE x \in S : \A y \in S : y <= x

\* the permutations of a finite set, as sequences
Perms(S) ==
    {q \in [1..Cardinality(S) -> S] : \A i, j \in 1..Cardinality(S) : q[i] = q[j] => i = j}

\* operator.indexOf, 1-based; defined when x occurs in seq
indexOf(seq, x) == CHOOSE i \in 1..Len(seq) : seq[i] = x /\ \A j \in 1..(i - 1) : seq[j] # x

\* Python's < on strings of digits: lexicographic, a proper prefix is smaller
RECURSIVE StrLess(_, _)
StrLess(a, b) ==
    IF b = <<>> THEN FALSE
    ELSE IF a = <<>> THEN TRUE
    ELSE IF Head(a) # Head(b) THEN Head(a) < Head(b)
    ELSE StrLess(Tail(a), Tail(b))

\* sorted(seq, key=...): stable, Less compares the keys.  Element i goes
\* after the elements with a smaller key and the earlier ones with an equal key
sorted(seq, Less(_, _)) ==
    LET pos(i) == 1 + Cardinality({j \in 1..Len(seq) :
                        \/ Less(seq[j], seq[i])
                        \/ (~Less(seq[i], seq[j]) /\ j < i)})
    IN [k \in 1..Len(seq) |-> seq[CHOOSE i \in 1..Len(seq) : pos(i) = k]]

PhaseLess(p, q) == StrLess(PhaseNumber(p), PhaseNumber(q))
SessionLess(s, t) == TimeStart(s) < TimeStart(t)

\* a row with the columns at the given (1-based) indexes removed
DeleteCols(row, idx) ==
    LET F[i \in 0..Len(row)] ==
            IF i = 0 THEN <<>>
            ELSE IF i \in idx THEN F[i - 1] ELSE Append(F[i - 1], row[i])
    IN F[Len(row)]

\* np.delete(array, indexes, axis=1): always a new array
np_delete(rows, idx) == [r \in 1..Len(rows) |-> DeleteCols(rows[r], idx)]

NCols(rows) == IF Len(rows) = 0 THEN 0 ELSE Len(rows[1])

\* nr.read_neurone_data(...) / 1000: cell <<p, r, c>> stands for the sample of
\* phase p at row r of channel c (in protocol order), in microvolts
SourceData(p) ==
    [r \in 1..FileSamples(p) |->
        [c \in 1..Len(ProtocolChannels(SessionOf(p))) |-> <<p, r, c>>]]

(***************************************************************************)
(* The object graph as a value S: the methods below take it and return it  *)
(* changed.  Once S.err is set an exception is propagating: every further  *)
(* statement of the operation is skipped and what was done so far stays.   *)
(* Then(S, F) is "S1 = S; F(S1)": the statements F run on the graph S that *)
(* the statements before them left.                                        *)
(***************************************************************************)
Then(S, F(_)) == F(S)

Raise(S, e) == [S EXCEPT !.err = e]

\* BaseContainer._has_data
has_data(S, n) == S.data[n].buf # 0

\* the array a node's data slot refers to: the rows of its view
ArrayOf(S, n) == SubSeq(S.heap[S.data[n].buf], S.data[n].lo + 1, S.data[n].hi)

\* view[a:b] of a view: Python clips the slice to the rows the view has
Slice(view, a, b) ==
    LET n == view.hi - view.lo
        lo == Min(a, n)
        hi == IF Min(b, n) < lo THEN lo ELSE Min(b, n)
    IN [buf |-> view.buf, lo |-> view.lo + lo, hi |-> view.lo + hi]

NewBuf(S) == 1 + MaxOf(DOMAIN S.heap)

\* a new array comes to exist
Allocate(S, rows) == [S EXCEPT !.heap = (NewBuf(S) :> rows) @@ S.heap]

\* Lazy.__set__ of data with a new array: node.data = rows
SetArray(S, n, rows) ==
    [Allocate(S, rows) EXCEPT !.data[n] = [buf |-> NewBuf(S), lo |-> 0, hi |-> Len(rows)]]

\* Lazy.__delete__ of data: del node.data
DelData(S, n) == [S EXCEPT !.data[n] = NoData]

\* BaseContainer._protocol_channels of a Phase or Session
protocol_channels(n) == ProtocolChannels(IF n \in Phases THEN SessionOf(n) ELSE n)

Without(seq, names) == SelectSeq(seq, LAMBDA c : c \notin names)

\* BaseContainer.channels (a Lazy) of a Phase or Session: the state after the
\* read, and the value read
BaseContainer_channels(S, n) ==
    IF S.chans[n] # NoCache THEN S
    ELSE [S EXCEPT !.chans[n] = Without(protocol_channels(n), S.dropped[n])]

\* ''.join(channels)
RECURSIVE join(_)
join(seq) == IF seq = <<>> THEN "" ELSE Head(seq) \o join(Tail(seq))

\* reading [s.channels for s in self.sessions]
RECURSIVE ReadSessionChannels(_, _)
ReadSessionChannels(S, i) ==
    IF i > Len(sessions) THEN S
    ELSE ReadSessionChannels(BaseContainer_channels(S, sessions[i]), i + 1)

\* Recording.channels (a property): the state after the read
Recording_channels(S) ==
    LET S1 == ReadSessionChannels(S, 1)
    IN IF Cardinality({join(S1.chans[s]) : s \in Sessions}) <= 1 THEN S1
       ELSE Raise(S1, "AssertionError")

\* node.channels: the state after the read
channels(S, n) ==
    IF S.err # NoErr THEN S
    ELSE IF n = Rec THEN Recording_channels(S) ELSE BaseContainer_channels(S, n)

\* node.channels: the value read (when the read raises nothing)
channels_value(S, n) ==
    IF n = Rec THEN Without(channels(S, n).chans[sessions[1]], S.dropped[Rec])
    ELSE channels(S, n).chans[n]

\* a _extend_droplist that assigns the names instead of adding them
extend_droplist_assign(S, n, channels_to_drop) ==
    IF S.err # NoErr THEN S
    ELSE LET S1 == [S EXCEPT !.dropped[n] = channels_to_drop]
         IN IF n # Rec /\ S1.chans[n] # NoCache
            THEN [S1 EXCEPT !.chans[n] = Without(@, S1.dropped[n])]
            ELSE S1

\* BaseContainer._extend_droplist
extend_droplist(S, n, channels_to_drop) ==
    IF S.err # NoErr THEN S
    ELSE LET S1 == [S EXCEPT !.dropped[n] = @ \cup channels_to_drop]
         IN IF n # Rec /\ S1.chans[n] # NoCache
            THEN [S1 EXCEPT !.chans[n] = Without(@, S1.dropped[n])]
            ELSE S1

\* BaseContainer.drop_channels
BaseContainer_drop_channels(S, n, channels_to_drop) ==
    IF S.err # NoErr THEN S
    ELSE Then(channels(S, n), LAMBDA S1 :
             LET drop_set == (channels_to_drop \ S1.dropped[n])
                                 \cap Range(channels_value(S1, n))
                 not_dropping == channels_to_drop \ drop_set
             IN IF S1.err # NoErr THEN S1
                ELSE extend_droplist(
                         IF not_dropping # {}
                         THEN [S1 EXCEPT !.warned = @ \cup {<<n, not_dropping>>}]
                         ELSE S1,
                         n, drop_set))

\* the drop_indexes of the three drop_channels methods: the positions in
\* node.channels of the given names that are in it
drop_indexes(S, n, channels_to_drop) ==
    LET ch == channels_value(S, n)
    IN {indexOf(ch, c) : c \in channels_to_drop \cap Range(ch)}

\* self.data = np.delete(self.data, drop_indexes, axis=1), the data being there
DeleteChannels(S, n, channels_to_drop) ==
    Then(channels(S, n), LAMBDA S1 :
        LET idx == drop_indexes(S1, n, channels_to_drop)
        IN IF S1.err # NoErr THEN S1
           ELSE IF \E i \in idx : i > NCols(ArrayOf(S1, n)) THEN Raise(S1, "IndexError")
           ELSE SetArray(S1, n, np_delete(ArrayOf(S1, n), idx)))

(***************************************************************************)
(* Phase                                                                   *)
(***************************************************************************)
\* a _drop_indexes that forgets the channels dropped before the load
Phase_drop_indexes_none(S, p) == {}

\* BaseContainer._drop_indexes of a Phase: positions in the protocol's channels
Phase_drop_indexes(S, p) == {indexOf(protocol_channels(p), c) : c \in S.dropped[p]}

\* Phase.data read through Lazy.__get__: the file is read, then the dropped
\* columns are deleted; indexOf raises ValueError for a name not in the protocol
Phase_data(S, p) ==
    IF S.err # NoErr \/ has_data(S, p) THEN S
    ELSE LET S1 == [S EXCEPT !.loads = @ \cup {p}]
         IN IF S.dropped[p] \subseteq Range(protocol_channels(p))
            THEN SetArray(S1, p, np_delete(SourceData(p), Phase_drop_indexes(S1, p)))
            ELSE Raise(S1, "ValueError")

\* Phase.n_samples
Phase_n_samples(p) == FileSamples(p)

\* Phase.n_channels
Phase_n_channels(S, p) == Len(protocol_channels(p)) - Cardinality(S.dropped[p])

\* Phase.clear_data
Phase_clear_data(S, p) == IF S.err # NoErr THEN S ELSE DelData(S, p)

\* Phase.drop_channels
Phase_drop_channels(S, p, channels_to_drop) ==
    IF S.err # NoErr THEN S
    ELSE BaseContainer_drop_channels(
             IF has_data(S, p) THEN DeleteChannels(S, p, channels_to_drop) ELSE S,
             p, channels_to_drop)

(***************************************************************************)
(* Session                                                                 *)
(***************************************************************************)
\* new_array[-len(p.data):] = p.data: numpy broadcasts a one-column array to
\* the columns of the target and raises ValueError for any other mismatch
Broadcastable(from, to) == from = to \/ from = 1
Broadcast(rows, to) ==
    IF NCols(rows) = to THEN rows
    ELSE [r \in 1..Len(rows) |-> [c \in 1..to |-> rows[r][1]]]

\* a pass that discards the data the Phase holds and reads it from source
MergePhase_reread(acc, p, names) ==
    IF acc.st.err # NoErr THEN acc
    ELSE Then(Phase_data(DelData(Phase_drop_channels(acc.st, p, names), p), p), LAMBDA S1 :
             LET pd == ArrayOf(S1, p)
                 old_length == Len(acc.arr)
             IN IF S1.err # NoErr THEN [acc EXCEPT !.st = S1]
                ELSE IF acc.none
                THEN [st |-> DelData(S1, p), none |-> FALSE, arr |-> pd,
                      slices |-> Append(acc.slices, <<0, Len(pd)>>)]
                ELSE IF ~Broadcastable(NCols(pd), NCols(acc.arr))
                THEN [acc EXCEPT !.st = Raise(S1, "ValueError")]
                ELSE [st |-> DelData(S1, p), none |-> FALSE,
                      arr |-> acc.arr \o Broadcast(pd, NCols(acc.arr)),
                      slices |-> Append(acc.slices, <<old_length, old_length + Len(pd)>>)])

\* one pass of the loop over the sorted phases in Session.data and in
\* Recording.data.  acc.arr is new_array (acc.none: it is still None) and
\* acc.slices the slices appended so far
MergePhase(acc, p, names) ==
    IF acc.st.err # NoErr THEN acc
    ELSE Then(Phase_data(Phase_drop_channels(acc.st, p, names), p), LAMBDA S1 :
             LET pd == ArrayOf(S1, p)
                 old_length == Len(acc.arr)
             IN IF S1.err # NoErr THEN [acc EXCEPT !.st = S1]
                ELSE IF acc.none
                THEN [st |-> DelData(S1, p), none |-> FALSE, arr |-> pd,
                      slices |-> Append(acc.slices, <<0, Len(pd)>>)]
                ELSE IF ~Broadcastable(NCols(pd), NCols(acc.arr))
                THEN [acc EXCEPT !.st = Raise(S1, "ValueError")]
                ELSE [st |-> DelData(S1, p), none |-> FALSE,
                      arr |-> acc.arr \o Broadcast(pd, NCols(acc.arr)),
                      slices |-> Append(acc.slices, <<old_length, old_length + Len(pd)>>)])

RECURSIVE MergePhases(_, _, _, _)
MergePhases(acc, ps, i, names) ==
    IF i > Len(ps) THEN acc
    ELSE MergePhases(MergePhase(acc, ps[i], names), ps, i + 1, names)

\* a Session.data whose last loop hands the slices to the phases as
\* self.phases lists them
Session_data_listed(S, s) ==
    IF S.err # NoErr \/ has_data(S, s) THEN S
    ELSE Then(MergePhases([st |-> S, none |-> TRUE, arr |-> <<>>, slices |-> <<>>],
                          sorted(phases[s], PhaseLess), 1, S.dropped[s]),
              LAMBDA acc :
             LET ps == phases[s]
                 S1 == Allocate(acc.st, acc.arr)
                 new_array == [buf |-> NewBuf(acc.st), lo |-> 0, hi |-> Len(acc.arr)]
             IN IF acc.st.err # NoErr THEN acc.st
                ELSE [S1 EXCEPT !.data =
                         [n \in Nodes |->
                             IF n = s THEN new_array
                             ELSE IF n \in Range(ps)
                             THEN Slice(new_array, acc.slices[indexOf(ps, n)][1],
                                        acc.slices[indexOf(ps, n)][2])
                             ELSE @[n]]])

\* Session.data read through Lazy.__get__
Session_data(S, s) ==
    IF S.err # NoErr \/ has_data(S, s) THEN S
    ELSE Then(MergePhases([st |-> S, none |-> TRUE, arr |-> <<>>, slices |-> <<>>],
                          sorted(phases[s], PhaseLess), 1, S.dropped[s]),
              LAMBDA acc :
             LET ps == sorted(phases[s], PhaseLess)
                 S1 == Allocate(acc.st, acc.arr)
                 new_array == [buf |-> NewBuf(acc.st), lo |-> 0, hi |-> Len(acc.arr)]
             IN IF acc.st.err # NoErr THEN acc.st
                ELSE [S1 EXCEPT !.data =
                         [n \in Nodes |->
                             IF n = s THEN new_array
                             ELSE IF n \in Range(ps)
                             THEN Slice(new_array, acc.slices[indexOf(ps, n)][1],
                                        acc.slices[indexOf(ps, n)][2])
                             ELSE @[n]]])

\* Session.n_samples
Session_n_samples(s) ==
    LET Sum[i \in 0..Len(phases[s])] ==
            IF i = 0 THEN 0 ELSE Sum[i - 1] + Phase_n_samples(phases[s][i])
    IN Sum[Len(phases[s])]

\* Session.n_channels: whether the assertion holds, and the value returned
Session_n_channels_ok(S, s) ==
    Cardinality({Phase_n_channels(S, p) : p \in Range(phases[s])}) <= 1
Session_n_channels(S, s) == Phase_n_channels(S, phases[s][1])

\* Session.clear_data
RECURSIVE ClearPhases(_, _, _)
ClearPhases(S, s, i) ==
    IF i > Len(phases[s]) THEN S
    ELSE ClearPhases(Phase_clear_data(S, phases[s][i]), s, i + 1)

\* a clear_data that deletes the data of the Session and leaves the Phases
Session_clear_data_own(S, s) ==
    IF S.err # NoErr THEN S ELSE DelData(S, s)

Session_clear_data(S, s) ==
    IF S.err # NoErr THEN S ELSE DelData(ClearPhases(S, s, 1), s)

\* Session.drop_channels, data loaded: the loop over self.phases
RECURSIVE Session_update_views(_, _, _, _, _)
Session_update_views(S, s, channels_to_drop, i, p_offset) ==
    IF S.err # NoErr \/ i > Len(phases[s]) THEN S
    ELSE Then(Phase_data(extend_droplist(S, phases[s][i], channels_to_drop),
                         phases[s][i]),
              LAMBDA S1 :
             LET phase == phases[s][i]
                 data_length == Len(ArrayOf(S1, phase))
             IN IF S1.err # NoErr THEN S1
                ELSE Session_update_views(
                         [S1 EXCEPT !.data[phase] =
                             Slice(S1.data[s], p_offset, p_offset + data_length)],
                         s, channels_to_drop, i + 1, p_offset + data_length))

\* Session.drop_channels, data not loaded: the loop over self.phases
RECURSIVE Session_drop_phases(_, _, _, _)
Session_drop_phases(S, s, channels_to_drop, i) ==
    IF i > Len(phases[s]) THEN S
    ELSE Session_drop_phases(Phase_drop_channels(S, phases[s][i], channels_to_drop),
                             s, channels_to_drop, i + 1)

\* Session.drop_channels
Session_drop_channels(S, s, channels_to_drop) ==
    IF S.err # NoErr THEN S
    ELSE BaseContainer_drop_channels(
             IF has_data(S, s)
             THEN Session_update_views(DeleteChannels(S, s, channels_to_drop),
                                       s, channels_to_drop, 1, 0)
             ELSE Session_drop_phases(S, s, channels_to_drop, 1),
             s, channels_to_drop)

(***************************************************************************)
(* Recording                                                               *)
(***************************************************************************)
\* one pass of the loop over the sorted sessions in Recording.data
MergeSession(acc, s) ==
    IF acc.st.err # NoErr THEN acc
    ELSE LET old_length == IF acc.none THEN 0 ELSE Len(acc.arr)
             new_length == old_length + (IF has_data(acc.st, s)
                                         THEN Len(ArrayOf(acc.st, s))
                                         ELSE Session_n_samples(s))
             S1 == DelData(acc.st, s)
         IN Then(MergePhases([st |-> S1, none |-> acc.none, arr |-> acc.arr,
                              slices |-> <<>>],
                             sorted(phases[s], PhaseLess), 1, S1.dropped[Rec]),
                 LAMBDA inner :
                [st |-> inner.st, none |-> inner.none, arr |-> inner.arr,
                 slices |-> Append(acc.slices, <<old_length, new_length>>),
                 all_phase_slices |-> Append(acc.all_phase_slices, inner.slices)])

RECURSIVE MergeSessions(_, _, _)
MergeSessions(acc, ss, i) ==
    IF i > Len(ss) THEN acc
    ELSE MergeSessions(MergeSession(acc, ss[i]), ss, i + 1)

\* a Recording.data without its last loop: the children keep no data
Recording_view_unset(acc, ss, new_array, n) == NoData

\* the view the last loop of Recording.data gives a Session or a Phase:
\* sessions are enumerated sorted, each session's phases as s.phases lists them
Recording_view(acc, ss, new_array, n) ==
    IF n \in Sessions
    THEN Slice(new_array, acc.slices[indexOf(ss, n)][1], acc.slices[indexOf(ss, n)][2])
    ELSE LET s_index == indexOf(ss, SessionOf(n))
             p_index == indexOf(phases[SessionOf(n)], n)
         IN Slice(new_array, acc.all_phase_slices[s_index][p_index][1],
                  acc.all_phase_slices[s_index][p_index][2])

\* Recording.data read through Lazy.__get__
Recording_data(S) ==
    IF S.err # NoErr \/ has_data(S, Rec) THEN S
    ELSE Then(MergeSessions([st |-> S, none |-> TRUE, arr |-> <<>>, slices |-> <<>>,
                             all_phase_slices |-> <<>>],
                            sorted(sessions, SessionLess), 1),
              LAMBDA acc :
             LET ss == sorted(sessions, SessionLess)
                 S1 == Allocate(acc.st, acc.arr)
                 new_array == [buf |-> NewBuf(acc.st), lo |-> 0, hi |-> Len(acc.arr)]
             IN IF acc.st.err # NoErr THEN acc.st
                ELSE [S1 EXCEPT !.data =
                         [n \in Nodes |->
                             IF n = Rec THEN new_array
                             ELSE Recording_view(acc, ss, new_array, n)]])

\* Recording.n_samples
Recording_n_samples ==
    LET Sum[i \in 0..Len(sessions)] ==
            IF i = 0 THEN 0 ELSE Sum[i - 1] + Session_n_samples(sessions[i])
    IN Sum[Len(sessions)]

\* Recording.n_channels: whether no assertion fails, and the value returned
Recording_n_channels_ok(S) ==
    /\ \A s \in Range(sessions) : Session_n_channels_ok(S, s)
    /\ Cardinality({Session_n_channels(S, s) : s \in Range(sessions)}) <= 1
Recording_n_channels(S) == Session_n_channels(S, sessions[1])

\* Recording.clear_data
RECURSIVE ClearSessions(_, _)
ClearSessions(S, i) ==
    IF i > Len(sessions) THEN S
    ELSE ClearSessions(Session_clear_data(S, sessions[i]), i + 1)

Recording_clear_data(S) ==
    IF S.err # NoErr THEN S ELSE DelData(ClearSessions(S, 1), Rec)

\* Recording.drop_channels, data loaded: the inner loop over session.phases;
\* acc.p_offset runs on from one session to the next
RECURSIVE Recording_update_phases(_, _, _, _)
Recording_update_phases(acc, session, channels_to_drop, i) ==
    IF acc.st.err # NoErr \/ i > Len(phases[session]) THEN acc
    ELSE Then(Phase_data(extend_droplist(acc.st, phases[session][i], channels_to_drop),
                         phases[session][i]),
              LAMBDA S1 :
             LET phase == phases[session][i]
                 data_length == Len(ArrayOf(S1, phase))
             IN IF S1.err # NoErr THEN [acc EXCEPT !.st = S1]
                ELSE Recording_update_phases(
                         [acc EXCEPT
                             !.st = [S1 EXCEPT !.data[phase] =
                                        Slice(S1.data[Rec], acc.p_offset,
                                              acc.p_offset + data_length)],
                             !.p_offset = @ + data_length],
                         session, channels_to_drop, i + 1))

\* Recording.drop_channels, data loaded: the loop over self.sessions
RECURSIVE Recording_update_views(_, _, _)
Recording_update_views(acc, channels_to_drop, i) ==
    IF acc.st.err # NoErr \/ i > Len(sessions) THEN acc
    ELSE Then(Session_data(extend_droplist(acc.st, sessions[i], channels_to_drop),
                           sessions[i]),
              LAMBDA S1 :
             LET session == sessions[i]
                 data_length == Len(ArrayOf(S1, session))
                 S2 == [S1 EXCEPT !.data[session] =
                           Slice(S1.data[Rec], acc.s_offset, acc.s_offset + data_length)]
             IN IF S1.err # NoErr THEN [acc EXCEPT !.st = S1]
                ELSE Recording_update_views(
                         Recording_update_phases(
                             [st |-> S2, s_offset |-> acc.s_offset + data_length,
                              p_offset |-> acc.p_offset],
                             session, channels_to_drop, 1),
                         channels_to_drop, i + 1))

\* Recording.drop_channels, data not loaded: the loop over self.sessions
RECURSIVE Recording_drop_sessions(_, _, _)
Recording_drop_sessions(S, channels_to_drop, i) ==
    IF i > Len(sessions) THEN S
    ELSE Recording_drop_sessions(Session_drop_channels(S, sessions[i], channels_to_drop),
                                 channels_to_drop, i + 1)

\* Recording.drop_channels
Recording_drop_channels(S, channels_to_drop) ==
    IF S.err # NoErr THEN S
    ELSE BaseContainer_drop_channels(
             IF has_data(S, Rec)
             THEN Recording_update_views(
                      [st |-> DeleteChannels(S, Rec, channels_to_drop),
                       s_offset |-> 0, p_offset |-> 0],
                      channels_to_drop, 1).st
             ELSE Recording_drop_sessions(S, channels_to_drop, 1),
             Rec, channels_to_drop)

(***************************************************************************)
(* Events.  evTree is what is on disk: per Session (in os.listdir order)   *)
(* the sampling rate of its protocol, its time_start and its Phases (in    *)
(* protocol order), each with its number, the rows of its binary file and  *)
(* the records of its events.bin.  A Session is named by its index i in    *)
(* that list and a Phase by <<i, j>>.                                      *)
(***************************************************************************)
MaxPhaseSamples == 2
NoTree == [sessions |-> <<>>]
\* the numbers of Phases of the Sessions of the recordings read
EventShapes == {<<3>>, <<1, 1, 1>>, <<2, 1>>}
SamplingRates == {1, 2}

\* the records an events.bin of a phase of k samples can hold
EventRecords(k) ==
    {x \in [StartSampleIndex : 0..(k - 1), StopSampleIndex : 0..(k - 1)] :
        x.StartSampleIndex <= x.StopSampleIndex}

\* the events.bin files of a phase of k samples: no record, one, or two
\* records of one sample each, in any order
EventFiles(k) ==
    {<<>>} \cup {<<e>> : e \in EventRecords(k)}
           \cup {<<e, f>> : e, f \in {x \in EventRecords(k) :
                                        x.StartSampleIndex = x.StopSampleIndex}}

\* the files of a phase: the rows of its binary file and its events.bin
PhaseFiles ==
    UNION {{[n_samples |-> k, events |-> ev] : ev \in EventFiles(k)} :
              k \in 1..MaxPhaseSamples}

SumTo(seq, n) ==
    LET F[i \in 0..Len(seq)] == IF i = 0 THEN 0 ELSE F[i - 1] + seq[i]
    IN F[n]

\* the recording with the given files, rates[i] the sampling rate of the
\* protocol of the i-th session listed; descending: the lists enumerate the
\* sessions from the latest to the earliest and the phases from the last number
EventTree(rates, shape, files, descending) ==
    [sessions |->
        [i \in 1..Len(shape) |->
            [sampling_rate |-> rates[i],
             time_start |-> IF descending THEN Len(shape) + 1 - i ELSE i,
             phases |->
                [j \in 1..shape[i] |->
                    [number |-> <<IF descending THEN shape[i] + 1 - j ELSE j>>,
                     n_samples |-> files[SumTo(shape, i - 1) + j].n_samples,
                     events |-> files[SumTo(shape, i - 1) + j].events]]]]]

\* the recordings of the given shapes whose sessions were all recorded at
\* one sampling rate
EventTrees(shapes) ==
    UNION {{EventTree([i \in 1..Len(shape) |-> rate], shape, files, descending) :
                rate \in SamplingRates,
                files \in [1..SumTo(shape, Len(shape)) -> PhaseFiles],
                descending \in BOOLEAN} :
              shape \in shapes}

EventPhases(i) == 1..Len(evTree.sessions[i].phases)
EventPositions ==
    UNION {{<<i, j>> : j \in EventPhases(i)} : i \in 1..Len(evTree.sessions)}

\* nr.read_neurone_events(...)['events'] of Phase <<i, j>>: every record with
\* its StartTime and StopTime, which the int64 fields of the array truncate;
\* record tells the rows apart: the file and the place in it a row came from
read_neurone_events(i, j) ==
    LET ph == evTree.sessions[i].phases[j]
    IN [k \in 1..Len(ph.events) |->
           [record |-> <<i, j, k>>,
            StartSampleIndex |-> ph.events[k].StartSampleIndex,
            StopSampleIndex |-> ph.events[k].StopSampleIndex,
            StartTime |-> ph.events[k].StartSampleIndex
                              \div evTree.sessions[i].sampling_rate,
            StopTime |-> ph.events[k].StopSampleIndex
                             \div evTree.sessions[i].sampling_rate]]

\* the Lazy slot _events of a Phase whose events were not read yet
NoEvents == [cached |-> FALSE, table |-> <<>>]

\* Phase.events (a Lazy): the caches after the read
Phase_events(C, i, j) ==
    IF C[<<i, j>>].cached THEN C
    ELSE [C EXCEPT ![<<i, j>>] = [cached |-> TRUE, table |-> read_neurone_events(i, j)]]

\* the caches after every Phase of Session i has been read
Session_phase_events(C, i) ==
    LET F[j \in 0..Len(evTree.sessions[i].phases)] ==
            IF j = 0 THEN C ELSE Phase_events(F[j - 1], i, j)
    IN F[Len(evTree.sessions[i].phases)]

\* Phase.n_samples and Session.n_samples of the recording read
EventPhase_n_samples(i, j) == evTree.sessions[i].phases[j].n_samples
EventSession_n_samples(i) ==
    SumTo([j \in EventPhases(i) |-> EventPhase_n_samples(i, j)],
          Len(evTree.sessions[i].phases))

\* a copy of the events whose sample indexes are not moved on
ShiftEvents_unshifted(events, current_samples, cur_time) ==
    [k \in 1..Len(events) |->
        [events[k] EXCEPT !.StartTime = @ + cur_time,
                          !.StopTime = @ + cur_time]]

\* cur_events = events.copy() with the four columns moved on
ShiftEvents(events, current_samples, cur_time) ==
    [k \in 1..Len(events) |->
        [events[k] EXCEPT !.StartSampleIndex = @ + current_samples,
                          !.StopSampleIndex = @ + current_samples,
                          !.StartTime = @ + cur_time,
                          !.StopTime = @ + cur_time]]

\* the loop of Session.events over phases[1:], the phases sorted; tables[k]
\* is phases[k].events and sizes[k] is phases[k].n_samples
RECURSIVE Session_events_loop(_, _, _, _, _, _)
Session_events_loop(tables, sizes, sampling_rate, i, current_samples, all_events) ==
    IF i > Len(tables) THEN all_events
    ELSE IF Len(tables[i]) > 0
    THEN Session_events_loop(
             tables, sizes, sampling_rate, i + 1, current_samples + sizes[i],
             all_events \o ShiftEvents(tables[i], current_samples,
                                       current_samples \div sampling_rate))
    ELSE Session_events_loop(tables, sizes, sampling_rate, i + 1, current_samples,
                        all_events)

\* Session.events (a property) of Session i, its Phases' events being cached
Session_events(C, i) ==
    LET phs == sorted([j \in EventPhases(i) |-> j],
                      LAMBDA a, b : StrLess(evTree.sessions[i].phases[a].number,
                                            evTree.sessions[i].phases[b].number))
        tables == [k \in 1..Len(phs) |-> Session_phase_events(C, i)[<<i, phs[k]>>].table]
        sizes == [k \in 1..Len(phs) |-> EventPhase_n_samples(i, phs[k])]
    IN Session_events_loop(tables, sizes, evTree.sessions[i].sampling_rate,
                           2, sizes[1], tables[1])

\* cur_events = phases[i].events: the cached table itself, not a copy
events_alias(C, pos) == [of |-> pos, rows |-> C[pos].table]

\* cur_events = phases[i].events.copy(): a new table with the rows of the
\* cached one, which it shares nothing with
events_copy(C, pos) == [of |-> <<>>, rows |-> C[pos].table]

\* the caches after cur_events[...] += ... on the four columns: the table
\* changed is cur_events, and a cached table only if cur_events is that table
add_in_place(C, cur_events, current_samples, cur_time) ==
    IF cur_events.of = <<>> THEN C
    ELSE [C EXCEPT ![cur_events.of].table = ShiftEvents(@, current_samples, cur_time)]

\* the caches after the loop of Session.events over phases[1:]
RECURSIVE Session_events_caches_loop(_, _, _, _, _)
Session_events_caches_loop(C, i, phs, k, current_samples) ==
    IF k > Len(phs) THEN C
    ELSE IF Len(C[<<i, phs[k]>>].table) > 0
    THEN Session_events_caches_loop(
             add_in_place(C, events_copy(C, <<i, phs[k]>>), current_samples,
                          current_samples \div evTree.sessions[i].sampling_rate),
             i, phs, k + 1, current_samples + EventPhase_n_samples(i, phs[k]))
    ELSE Session_events_caches_loop(C, i, phs, k + 1, current_samples)

\* the caches after a read of Session.events of Session i
Session_events_caches(C, i) ==
    LET phs == sorted([j \in EventPhases(i) |-> j],
                      LAMBDA a, b : StrLess(evTree.sessions[i].phases[a].number,
                                            evTree.sessions[i].phases[b].number))
    IN Session_events_caches_loop(Session_phase_events(C, i), i, phs, 2,
                                  EventPhase_n_samples(i, phs[1]))

\* the caches after every Phase of every Session has been read
Recording_phase_events(C) ==
    LET F[i \in 0..Len(evTree.sessions)] ==
            IF i = 0 THEN C ELSE Session_phase_events(F[i - 1], i)
    IN F[Len(evTree.sessions)]

\* the loop of Recording.events over sessions[1:], the sessions sorted
RECURSIVE Recording_events_loop(_, _, _, _, _, _)
Recording_events_loop(tables, sizes, sampling_rate, i, current_samples, all_events) ==
    IF i > Len(tables) THEN all_events
    ELSE IF Len(tables[i]) > 0
    THEN Recording_events_loop(
             tables, sizes, sampling_rate, i + 1, current_samples + sizes[i],
             all_events \o ShiftEvents(tables[i], current_samples,
                                       current_samples \div sampling_rate))
    ELSE Recording_events_loop(tables, sizes, sampling_rate, i + 1, current_samples,
                        all_events)

\* the sessions sorted by time_start
EventSessions ==
    sorted([i \in 1..Len(evTree.sessions) |-> i],
           LAMBDA a, b : evTree.sessions[a].time_start < evTree.sessions[b].time_start)

\* the caches after a read of Recording.events: sessions[0].events is read
\* once, every other sessions[i].events to test its length and again to be
\* copied if it is not empty; the copy is of a table Session.events has just
\* made, which no cache holds
RECURSIVE Recording_events_caches_loop(_, _)
Recording_events_caches_loop(C, k) ==
    IF k > Len(EventSessions) THEN C
    ELSE Then(Session_events_caches(C, EventSessions[k]), LAMBDA C1 :
             Recording_events_caches_loop(
                 IF k > 1 /\ Len(Session_events(C1, EventSessions[k])) > 0
                 THEN Session_events_caches(C1, EventSessions[k]) ELSE C1,
                 k + 1))

Recording_events_caches(C) == Recording_events_caches_loop(C, 1)

\* the sampling rates the Sessions report
SessionRates == {evTree.sessions[i].sampling_rate : i \in 1..Len(evTree.sessions)}

\* Recording.sampling_rate: whether the assertion holds, and the value returned
Recording_sampling_rate_ok == Cardinality(SessionRates) <= 1
Recording_sampling_rate == evTree.sessions[1].sampling_rate

\* the assertion Recording.events makes on the sampling rates of the Sessions
Recording_events_ok == Cardinality(SessionRates) >= 1

\* Recording.events (a property)
Recording_events(C) ==
    LET tables == [k \in 1..Len(EventSessions) |-> Session_events(C, EventSessions[k])]
        sizes == [k \in 1..Len(EventSessions) |-> EventSession_n_samples(EventSessions[k])]
    IN Recording_events_loop(tables, sizes,
                             evTree.sessions[EventSessions[1]].sampling_rate,
                             2, sizes[1], tables[1])

(***************************************************************************)
(* The operations by node, and what reading a property returns.            *)
(***************************************************************************)
\* node.data (the read)
data_read(S, n) ==
    IF n = Rec THEN Recording_data(S)
    ELSE IF n \in Sessions THEN Session_data(S, n) ELSE Phase_data(S, n)

\* a _has_data that reads self.data and tells whether it got an array
BaseContainer_has_data_by_read(S, n) ==
    Then(data_read(S, n), LAMBDA S1 :
        [S1 EXCEPT !.ret = IF has_data(S1, n) THEN "True" ELSE "False"])

\* a call of BaseContainer._has_data: the objects after it, S.ret what it returned
BaseContainer_has_data(S, n) ==
    [S EXCEPT !.ret = IF has_data(S, n) THEN "True" ELSE "False"]

\* node.clear_data()
clear_data(S, n) ==
    IF n = Rec THEN Recording_clear_data(S)
    ELSE IF n \in Sessions THEN Session_clear_data(S, n) ELSE Phase_clear_data(S, n)

\* node.drop_channels(channels_to_drop)
drop_channels(S, n, channels_to_drop) ==
    IF n = Rec THEN Recording_drop_channels(S, channels_to_drop)
    ELSE IF n \in Sessions THEN Session_drop_channels(S, n, channels_to_drop)
    ELSE Phase_drop_channels(S, n, channels_to_drop)

\* node.n_samples
n_samples(n) ==
    IF n = Rec THEN Recording_n_samples
    ELSE IF n \in Sessions THEN Session_n_samples(n) ELSE Phase_n_samples(n)

\* node.n_channels: whether the read raises nothing, and the value read
n_channels_ok(S, n) ==
    IF n = Rec THEN Recording_n_channels_ok(S)
    ELSE IF n \in Sessions THEN Session_n_channels_ok(S, n) ELSE TRUE
n_channels(S, n) ==
    IF n = Rec THEN Recording_n_channels(S)
    ELSE IF n \in Sessions THEN Session_n_channels(S, n) ELSE Phase_n_channels(S, n)

\* an n_channels that returns what the first child reports and asserts nothing
n_channels_read_unasserted(S, n) == [S EXCEPT !.ret = n_channels(S, n)]

\* value = node.n_channels: S.ret the value, or AssertionError
n_channels_read(S, n) ==
    IF n_channels_ok(S, n) THEN [S EXCEPT !.ret = n_channels(S, n)]
    ELSE Raise(S, "AssertionError")

\* value = node.n_samples
n_samples_read(S, n) == [S EXCEPT !.ret = n_samples(n)]

\* node.data[row, -1] = value: the read of node.data, then the store
\* through the view into the last column
write_element(S, n, row, value) ==
    Then(data_read(S, n), LAMBDA S1 :
        LET v == S1.data[n]
        IN IF S1.err # NoErr THEN S1
           ELSE IF row > v.hi - v.lo \/ NCols(ArrayOf(S1, n)) = 0
           THEN Raise(S1, "IndexError")
           ELSE [S1 EXCEPT !.heap[v.buf][v.lo + row][NCols(ArrayOf(S1, n))] = value])

(***************************************************************************)
(* MneExportable.to_mne (mne_export.py).  self.events is an argument of    *)
(* the model: a table of StartSampleIndex, StopSampleIndex and Code.  The  *)
(* RawArray returned is told by its stim channels, one value per sample.   *)
(***************************************************************************)
\* substitute_zero_events_with: None, an int or a str
NoSubstitute == [kind |-> "None", value |-> 0]
MneSubstitutes ==
    {NoSubstitute, [kind |-> "int", value |-> 1], [kind |-> "int", value |-> 2],
     [kind |-> "str", value |-> 0]}

\* the events of a container of len samples: one sample long, code 0 or 1
MneEvents(len) ==
    [StartSampleIndex : 0..(Min(len, 2) - 1), StopSampleIndex : 0..(Min(len, 2) - 1),
     Code : 0..1]

\* the tables of no, one or two events
MneTables(len) ==
    {<<>>} \cup {<<e>> : e \in {x \in MneEvents(len) :
                                    x.StartSampleIndex = x.StopSampleIndex}}
           \cup {<<e, f>> : e, f \in {x \in MneEvents(len) :
                                        x.StartSampleIndex = x.StopSampleIndex}}

\* np.unique(events['Code'].values)
event_codes(events) == {events[k].Code : k \in 1..Len(events)}

\* the two assertions on substitute_zero_events_with
substitute_ok(events, sub) ==
    sub.kind = "None" \/ (sub.kind = "int" /\ sub.value \notin event_codes(events))

\* np.zeros(data_length)
stim_zeros(len) == [k \in 1..len |-> 0]

\* (stim_channels[i][lo:hi + 1] == 0).all(), lo and hi counted from 0
stim_free(channel, lo, hi) ==
    \A k \in 1..Len(channel) : (lo < k /\ k <= hi + 1) => channel[k] = 0

\* a search that takes the first stim channel whatever it holds
stim_index_first(stim, i, lo, hi) == i

\* the while loop: the first stim channel free between lo and hi, or the
\* index of the channel _add_stim_channel appends
RECURSIVE stim_index(_, _, _, _)
stim_index(stim, i, lo, hi) ==
    IF i > Len(stim) \/ stim_free(stim[i], lo, hi) THEN i
    ELSE stim_index(stim, i + 1, lo, hi)

\* one pass of the loop over ssc: the channel is chosen and the code added
add_event(stim, len, start, stop, code) ==
    LET corrected_start == IF start # 0 THEN start - 1 ELSE 0
        channel_index == stim_index(stim, 1, corrected_start, stop)
        channels_now == IF channel_index > Len(stim)
                        THEN Append(stim, stim_zeros(len)) ELSE stim
    IN [channels_now EXCEPT
           ![channel_index] =
               [k \in 1..len |->
                   IF start < k /\ k <= stop + 1
                   THEN channels_now[channel_index][k] + code
                   ELSE channels_now[channel_index][k]]]

\* a loop that adds the code of every event as it is, 0 included
RECURSIVE encode_events_raw(_, _, _, _, _)
encode_events_raw(events, i, sub, stim, len) ==
    IF i > Len(events) THEN [err |-> NoErr, stim |-> stim]
    ELSE encode_events_raw(
             events, i + 1, sub,
             add_event(stim, len, events[i].StartSampleIndex,
                       events[i].StopSampleIndex, events[i].Code),
             len)

\* the loop over ssc: code 0 is replaced by the substitute, or refused
RECURSIVE encode_events(_, _, _, _, _)
encode_events(events, i, sub, stim, len) ==
    IF i > Len(events) THEN [err |-> NoErr, stim |-> stim]
    ELSE IF sub.kind = "None" /\ events[i].Code = 0
    THEN [err |-> "AssertionError", stim |-> stim]
    ELSE encode_events(
             events, i + 1, sub,
             add_event(stim, len, events[i].StartSampleIndex,
                       events[i].StopSampleIndex,
                       IF events[i].Code = 0 THEN sub.value ELSE events[i].Code),
             len)

\* no RawArray was returned
NoStim == <<>>

\* a to_mne that keeps the data whatever copy says
to_mne_keep(S, n, events, sub, copy) ==
    Then(data_read(channels(S, n), n), LAMBDA S2 :
        IF S2.err # NoErr THEN [st |-> S2, stim |-> NoStim]
        ELSE IF ~substitute_ok(events, sub)
        THEN [st |-> Raise(S2, "AssertionError"), stim |-> NoStim]
        ELSE Then(encode_events(events, 1, sub, <<stim_zeros(Len(ArrayOf(S2, n)))>>,
                                Len(ArrayOf(S2, n))),
                  LAMBDA enc :
                 IF enc.err # NoErr THEN [st |-> Raise(S2, enc.err), stim |-> NoStim]
                 ELSE IF NCols(ArrayOf(S2, n)) # Len(channels_value(S2, n))
                 THEN [st |-> Raise(S2, "ValueError"), stim |-> NoStim]
                 ELSE [st |-> S2, stim |-> enc.stim]))

\* to_mne: self.channels and self.data are read, the substitute is checked,
\* the events are put into stim channels, mne.io.RawArray takes the data
\* (it raises ValueError unless there is one row per channel name) and
\* clear_data() is called unless copy is set
to_mne(S, n, events, sub, copy) ==
    Then(data_read(channels(S, n), n), LAMBDA S2 :
        IF S2.err # NoErr THEN [st |-> S2, stim |-> NoStim]
        ELSE IF ~substitute_ok(events, sub)
        THEN [st |-> Raise(S2, "AssertionError"), stim |-> NoStim]
        ELSE Then(encode_events(events, 1, sub, <<stim_zeros(Len(ArrayOf(S2, n)))>>,
                                Len(ArrayOf(S2, n))),
                  LAMBDA enc :
                 IF enc.err # NoErr THEN [st |-> Raise(S2, enc.err), stim |-> NoStim]
                 ELSE IF NCols(ArrayOf(S2, n)) # Len(channels_value(S2, n))
                 THEN [st |-> Raise(S2, "ValueError"), stim |-> NoStim]
                 ELSE [st |-> IF copy THEN S2 ELSE clear_data(S2, n),
                       stim |-> enc.stim]))

(***************************************************************************)
(* The state machine: one action per operation a caller can make.          *)
(***************************************************************************)
\* the arrays some data slot still refers to, numbered in the order of the
\* nodes that refer to them; an array nothing refers to is gone
LiveBufs(S) ==
    LET F[i \in 0..Len(NodeOrder)] ==
            IF i = 0 THEN <<>>
            ELSE LET b == S.data[NodeOrder[i]].buf
                 IN IF b = 0 \/ b \in Range(F[i - 1]) THEN F[i - 1] ELSE Append(F[i - 1], b)
    IN F[Len(NodeOrder)]

Collect(S) ==
    LET live == LiveBufs(S)
    IN [S EXCEPT
           !.heap = [k \in 1..Len(live) |-> S.heap[live[k]]],
           !.data = [n \in Nodes |->
                        IF S.data[n].buf = 0 THEN NoData
                        ELSE [S.data[n] EXCEPT !.buf = indexOf(live, S.data[n].buf)]]]

\* the object graph as the operation finds it
Cur ==
    [dropped |-> dropped, chans |-> chans, data |-> data, heap |-> heap,
     err |-> NoErr, loads |-> {}, warned |-> {}, ret |-> NoRet]

\* the object graph as the operation leaves it
Commit(S) ==
    LET T == Collect(S)
    IN /\ dropped' = T.dropped
       /\ chans' = T.chans
       /\ data' = T.data
       /\ heap' = T.heap
       /\ err' = T.err
       /\ loads' = T.loads
       /\ warned' = T.warned
       /\ ret' = T.ret

Op(name, n, names, row) ==
    [op |-> name, node |-> n, names |-> names, row |-> row]

\* the operation succeeded and leaves the object graph S
CommitDone(S) == S.err = NoErr /\ Commit(S)

\* no object has been used yet
InitGraph ==
    /\ dropped = [n \in Nodes |-> {}]
    /\ chans = [n \in Nodes |-> NoCache]
    /\ data = [n \in Nodes |-> NoData]
    /\ heap = <<>>
    /\ err = NoErr
    /\ loads = {}
    /\ warned = {}
    /\ last = Op("init", Rec, {}, 0)
    /\ steps = 0
    /\ writes = 0
    /\ requested = {}
    /\ usedInvalid = FALSE
    /\ ret = NoRet

\* the hierarchy as the constructors leave it: os.listdir yields the session
\* folders in any order, the protocol lists a session's phases in any order
InitObjects ==
    /\ sessions \in Perms(Sessions)
    /\ phases \in {f \in [Sessions -> UNION {Perms(PhasesOf(s)) : s \in Sessions}] :
                      \A s \in Sessions : f[s] \in Perms(PhasesOf(s))}
    /\ InitGraph
    /\ evTree = NoTree
    /\ evCache = <<>>
    /\ evOut = <<>>
    /\ lz = NoLazy
    /\ disk = NoDisk
    /\ cnt = NoCnt

\* a caller that works on every node of the hierarchy
Init == InitObjects /\ target = AnyNode

\* a caller that works on one node only
InitNode == InitObjects /\ target \in Nodes

\* the caller may make one more operation, on node n
MayCall(n) ==
    IF target = AnyNode THEN steps < MaxSteps
    ELSE n = target /\ steps < MaxNodeSteps

\* value = node.data
ReadData(n) ==
    /\ MayCall(n)
    /\ Commit(data_read(Cur, n))
    /\ last' = Op("data", n, {}, 0)
    /\ steps' = steps + 1
    /\ UNCHANGED <<sessions, phases, writes, target, requested, usedInvalid, eventVars, lz, disk, cnt>>

\* value = node.channels
ReadChannels(n) ==
    /\ MayCall(n)
    /\ Commit(channels(Cur, n))
    /\ last' = Op("channels", n, {}, 0)
    /\ steps' = steps + 1
    /\ UNCHANGED <<sessions, phases, writes, target, requested, usedInvalid, eventVars, lz, disk, cnt>>

\* node.clear_data()
ClearData(n) ==
    /\ MayCall(n)
    /\ Commit(clear_data(Cur, n))
    /\ last' = Op("clear", n, {}, 0)
    /\ steps' = steps + 1
    /\ UNCHANGED <<sessions, phases, writes, target, requested, usedInvalid, eventVars, lz, disk, cnt>>

\* value = node._has_data()
HasData(n) ==
    /\ MayCall(n)
    /\ Commit(BaseContainer_has_data(Cur, n))
    /\ last' = Op("has_data", n, {}, 0)
    /\ steps' = steps + 1
    /\ UNCHANGED <<sessions, phases, writes, target, requested, usedInvalid, eventVars, lz, disk, cnt>>

\* value = node.n_channels
ReadNChannels(n) ==
    /\ MayCall(n)
    /\ Commit(n_channels_read(Cur, n))
    /\ last' = Op("n_channels", n, {}, 0)
    /\ steps' = steps + 1
    /\ UNCHANGED <<sessions, phases, writes, target, requested, usedInvalid, eventVars, lz, disk, cnt>>

\* value = node.n_samples
ReadNSamples(n) ==
    /\ MayCall(n)
    /\ Commit(n_samples_read(Cur, n))
    /\ last' = Op("n_samples", n, {}, 0)
    /\ steps' = steps + 1
    /\ UNCHANGED <<sessions, phases, writes, target, requested, usedInvalid, eventVars, lz, disk, cnt>>

\* raw = node.to_mne(substitute_zero_events_with=sub, copy=copy), the
\* events of the node being the given table
ToMne(n, events, sub, copy) ==
    /\ MayCall(n)
    /\ steps < MaxMneSteps
    /\ (IF cnt = NoCnt THEN 0 ELSE 1) < MaxConversions
    /\ Then(to_mne(Cur, n, events, sub, copy), LAMBDA r :
            /\ Commit(r.st)
            /\ cnt' = [events |-> events, substitute |-> sub, copy |-> copy,
                       stim |-> r.stim])
    /\ last' = Op("to_mne", n, {}, 0)
    /\ steps' = steps + 1
    /\ UNCHANGED <<sessions, phases, writes, target, requested, usedInvalid, eventVars, lz, disk>>

\* whether every given name is a channel the node shows now
AllVisible(n, names) ==
    /\ channels(Cur, n).err = NoErr
    /\ names \subseteq Range(channels_value(Cur, n))

\* node.drop_channels(names)
DropChannels(n, names) ==
    /\ MayCall(n)
    /\ Commit(drop_channels(Cur, n, names))
    /\ last' = Op("drop", n, names, 0)
    /\ steps' = steps + 1
    /\ requested' = requested \cup names
    /\ usedInvalid' = (usedInvalid \/ ~AllVisible(n, names))
    /\ UNCHANGED <<sessions, phases, writes, target, eventVars, lz, disk, cnt>>

\* node.data[row, -1] = value, for a row the array has
WriteElement(n, row) ==
    /\ MayCall(n)
    /\ writes < MaxWrites
    /\ CommitDone(write_element(Cur, n, row, <<"w", 0, writes + 1>>))
    /\ last' = Op("write", n, {}, row)
    /\ steps' = steps + 1
    /\ writes' = writes + 1
    /\ UNCHANGED <<sessions, phases, target, requested, usedInvalid, eventVars, lz, disk, cnt>>

Next ==
    \/ \E n \in Nodes : ReadData(n)
    \/ \E n \in Nodes : ReadChannels(n)
    \/ \E n \in Nodes : ClearData(n)
    \/ \E n \in Nodes, names \in DropArgs(target) : DropChannels(n, names)
    \/ \E n \in Nodes, row \in 1..Recording_n_samples : WriteElement(n, row)

\* the hierarchy under any sequence of operations on any of its nodes
Spec == Init /\ [][Next]_vars

\* the operations of a caller that reads, clears and drops, and writes nothing
NextNode ==
    \/ \E n \in Nodes : ReadData(n)
    \/ \E n \in Nodes : ReadChannels(n)
    \/ \E n \in Nodes : ClearData(n)
    \/ \E n \in Nodes, names \in DropArgs(target) : DropChannels(n, names)
    \/ \E n \in Nodes : HasData(n)

\* one node under any sequence of operations made on it
SpecNode == InitNode /\ [][NextNode]_vars

\* the operations of a caller that reads data, drops channels and reads the
\* counts of any node
NextCount ==
    \/ \E n \in Nodes : ReadData(n)
    \/ \E n \in Nodes, names \in DropArgs(target) : DropChannels(n, names)
    \/ \E n \in Nodes : ReadNChannels(n)
    \/ \E n \in Nodes : ReadNSamples(n)

\* the hierarchy under drops and reads of n_channels and n_samples
SpecCount == Init /\ [][NextCount]_vars

\* a Recording whose lists are in ascending order, and a caller that works
\* on one node of it
InitMne ==
    /\ InitObjects
    /\ sessions = <<"s1", "s2">>
    /\ phases["s1"] = <<"p11", "p12">>
    /\ target \in Nodes

\* the operations of a caller that reads, clears, drops and converts once
NextMne ==
    \/ \E n \in Nodes : steps < MaxMneSteps /\ ReadData(n)
    \/ \E n \in Nodes : steps < MaxMneSteps /\ ClearData(n)
    \/ \E n \in Nodes, names \in DropArgs(target) :
           steps < MaxMneSteps /\ DropChannels(n, names)
    \/ \E n \in Nodes :
           /\ MayCall(n)
           /\ steps < MaxMneSteps
           /\ \E events \in MneTables(n_samples(n)), sub \in MneSubstitutes,
                 copy \in BOOLEAN : ToMne(n, events, sub, copy)

\* one node converted with to_mne between other operations on it
SpecMne == InitMne /\ [][NextMne]_vars

\* the events of a container of len samples that start and stop at any of
\* its samples, of code 1 or 2, and the tables of up to three of them
StimEvents(len) ==
    [StartSampleIndex : 0..(len - 1), StopSampleIndex : 0..(len - 1), Code : 1..2]
StimTables(len) ==
    {<<>>} \cup {<<e>> : e \in StimEvents(len)}
           \cup {<<e, f>> : e, f \in StimEvents(len)}
           \cup {<<e, f, g>> : e, f, g \in StimEvents(len)}

\* a Session of three samples that is converted
InitStim ==
    /\ InitObjects
    /\ phases["s1"] = <<"p11", "p12">>
    /\ target = "s1"

\* the Session is read or not and then converted, with any table of events
NextStim ==
    \/ steps = 0 /\ ReadData(target)
    \/ /\ cnt = NoCnt
       /\ \E events \in StimTables(n_samples(target)), copy \in BOOLEAN :
              ToMne(target, events, NoSubstitute, copy)

\* to_mne with events that overlap in any way
SpecStim == InitStim /\ [][NextStim]_vars

\* the channel lists a Session's protocol may hold, and the names the
\* drop_channels calls on such Sessions choose from
MaxChannelSteps == 3
ChannelLists == {<<"Fp1">>, <<"Fp", "1">>, <<"Fp1", "Cz">>, <<"Cz", "Fp1">>, <<"Fp", "1", "Cz">>}
ChannelDropArgs == {{"Cz"}, {"1"}, {"Fp1"}}

\* a Recording whose Sessions were recorded with any two of the protocols
InitChannels ==
    /\ sessions \in Perms(Sessions)
    /\ phases = [s \in Sessions |-> IF s = "s1" THEN <<"p11", "p12">> ELSE <<"p21">>]
    /\ InitGraph
    /\ target = AnyNode
    /\ evTree = NoTree
    /\ evCache = <<>>
    /\ evOut = <<>>
    /\ lz = NoLazy
    /\ disk \in {[channels |-> c] : c \in [Sessions -> ChannelLists]}
    /\ cnt = NoCnt

\* the operations of a caller that drops channels of the Sessions and of the
\* Recording and reads their channels
NextChannels ==
    \/ \E n \in {Rec} \cup Sessions : steps < MaxChannelSteps /\ ReadChannels(n)
    \/ \E n \in {Rec} \cup Sessions, names \in ChannelDropArgs :
           steps < MaxChannelSteps /\ DropChannels(n, names)

\* the channels of a Recording whose Sessions have protocols of their own
SpecChannels == InitChannels /\ [][NextChannels]_vars

\* a recording on disk whose events are read and nothing else
InitEvents ==
    /\ sessions = <<>>
    /\ phases = <<>>
    /\ InitGraph
    /\ target = "events"
    /\ evTree \in EventTrees(EventShapes)
    /\ evCache = [pos \in EventPositions |-> NoEvents]
    /\ evOut = <<>>
    /\ lz = NoLazy
    /\ disk = NoDisk
    /\ cnt = NoCnt

\* value = phase.events
ReadPhaseEvents(i, j) ==
    /\ <<i, j>> \in EventPositions
    /\ evCache' = Phase_events(evCache, i, j)
    /\ evOut' = evCache'[<<i, j>>].table
    /\ last' = Op("phase_events", <<i, j>>, {}, 0)
    /\ err' = NoErr
    /\ UNCHANGED <<objectVars, evTree, lz, disk, cnt>>

\* value = session.events
ReadSessionEvents(i) ==
    /\ i \in 1..Len(evTree.sessions)
    /\ evCache' = Session_events_caches(evCache, i)
    /\ evOut' = Session_events(evCache, i)
    /\ last' = Op("session_events", i, {}, 0)
    /\ err' = NoErr
    /\ UNCHANGED <<objectVars, evTree, lz, disk, cnt>>

\* value = recording.events
ReadRecordingEvents ==
    /\ Len(evTree.sessions) > 0
    /\ IF Recording_events_ok
       THEN /\ evCache' = Recording_events_caches(evCache)
            /\ evOut' = Recording_events(evCache)
            /\ err' = NoErr
       ELSE /\ evCache' = evCache
            /\ evOut' = <<>>
            /\ err' = "AssertionError"
    /\ last' = Op("recording_events", 0, {}, 0)
    /\ UNCHANGED <<objectVars, evTree, lz, disk, cnt>>

\* value = recording.sampling_rate
ReadRecordingSamplingRate ==
    /\ Len(evTree.sessions) > 0
    /\ IF Recording_sampling_rate_ok
       THEN /\ evOut' = <<[sampling_rate |-> Recording_sampling_rate]>>
            /\ err' = NoErr
       ELSE /\ evOut' = <<>>
            /\ err' = "AssertionError"
    /\ last' = Op("recording_sampling_rate", 0, {}, 0)
    /\ UNCHANGED <<objectVars, evTree, evCache, lz, disk, cnt>>

NextEvents ==
    \/ \E pos \in EventPositions : ReadPhaseEvents(pos[1], pos[2])
    \/ \E i \in 1..Len(evTree.sessions) : ReadSessionEvents(i)
    \/ ReadRecordingEvents

\* the events of a recording under any sequence of reads
SpecEvents == InitEvents /\ [][NextEvents]_vars

\* the numbers of Phases of the Sessions of the recordings whose events are
\* read again and again: a Session of two Phases and a Session of one
RereadShapes == {<<2, 1>>}

\* a recording of two Sessions on disk whose events are read and nothing else
InitReread ==
    /\ sessions = <<>>
    /\ phases = <<>>
    /\ InitGraph
    /\ target = "events"
    /\ evTree \in EventTrees(RereadShapes)
    /\ evCache = [pos \in EventPositions |-> NoEvents]
    /\ evOut = <<>>
    /\ lz = NoLazy
    /\ disk = NoDisk
    /\ cnt = NoCnt

\* the events of a recording of two Sessions under any sequence of reads
SpecReread == InitReread /\ [][NextEvents]_vars

\* the numbers of Phases of the Sessions of the recordings whose Sessions
\* may have been recorded at different sampling rates
RateShapes == {<<1>>, <<1, 1>>}

\* the recordings of the given shapes, every session at any sampling rate
RateTrees(shapes) ==
    UNION {{EventTree(rates, shape, files, descending) :
                rates \in [1..Len(shape) -> SamplingRates],
                files \in [1..SumTo(shape, Len(shape)) -> PhaseFiles],
                descending \in BOOLEAN} :
              shape \in shapes}

\* a recording on disk, its Sessions at any sampling rates
InitRates ==
    /\ sessions = <<>>
    /\ phases = <<>>
    /\ InitGraph
    /\ target = "events"
    /\ evTree \in RateTrees(RateShapes)
    /\ evCache = [pos \in EventPositions |-> NoEvents]
    /\ evOut = <<>>
    /\ lz = NoLazy
    /\ disk = NoDisk
    /\ cnt = NoCnt

NextRates ==
    \/ \E pos \in EventPositions : ReadPhaseEvents(pos[1], pos[2])
    \/ \E i \in 1..Len(evTree.sessions) : ReadSessionEvents(i)
    \/ ReadRecordingEvents
    \/ ReadRecordingSamplingRate

\* the events and the sampling rate of a recording under any sequence of reads
SpecRates == InitRates /\ [][NextRates]_vars

\* the folder names of the phases of a session with ten phases or more, as
\* strings of digits: "1", "2" and "10"
FolderNumbers == {<<1>>, <<2>>, <<1, 0>>}

\* the lists of two or three phase numbers a session protocol can hold, the
\* phases in any order
NumberLists ==
    {q \in UNION {[1..k -> FolderNumbers] : k \in 2..3} :
        \A a, b \in DOMAIN q : q[a] = q[b] => a = b}

\* a recording whose i-th session listed starts at times[i] and has a phase
\* of one sample and one event for every number of numbers[i]
OrderTree(numbers, times) ==
    [sessions |->
        [i \in 1..Len(numbers) |->
            [sampling_rate |-> 1,
             time_start |-> times[i],
             phases |->
                [j \in 1..Len(numbers[i]) |->
                    [number |-> numbers[i][j],
                     n_samples |-> 1,
                     events |-> <<[StartSampleIndex |-> 0, StopSampleIndex |-> 0]>>]]]]]

\* the recordings of one or two sessions, listed in any order
OrderTrees ==
    {OrderTree(<<q>>, <<1>>) : q \in NumberLists}
        \cup {OrderTree(<<q, r>>, times) :
                  q \in NumberLists, r \in {<<<<1>>, <<2>>>>, <<<<2>>, <<1>>>>},
                  times \in {<<1, 2>>, <<2, 1>>}}

\* a recording on disk that has a phase folder "10"
InitOrder ==
    /\ sessions = <<>>
    /\ phases = <<>>
    /\ InitGraph
    /\ target = "events"
    /\ evTree \in OrderTrees
    /\ evCache = [pos \in EventPositions |-> NoEvents]
    /\ evOut = <<>>
    /\ lz = NoLazy
    /\ disk = NoDisk
    /\ cnt = NoCnt

\* the events of such a recording under any sequence of reads
SpecOrder == InitOrder /\ [][NextEvents]_vars

(***************************************************************************)
(* Construction.  disk.root is os.listdir of the folder a Recording is     *)
(* constructed on: every entry is a file or a folder, a folder holds a     *)
(* Protocol.xml or not, and the session file next to it lists phases.      *)
(* sessions and phases are the lists the constructors leave: the entries   *)
(* the Sessions were made of and, for each, the numbers of its Phases.     *)
(***************************************************************************)
MaxEntries == 3

\* protocol['phases'] of a session folder: the phase numbers listed
ProtocolPhases == {<<>>, <<<<1>>>>, <<<<1>>, <<2>>>>, <<<<2>>, <<1>>>>}

DirEntries ==
    {[isdir |-> FALSE, protocol |-> FALSE, phases |-> <<>>],
     [isdir |-> TRUE, protocol |-> FALSE, phases |-> <<>>]}
        \cup {[isdir |-> TRUE, protocol |-> TRUE, phases |-> q] : q \in ProtocolPhases}

Roots == UNION {[1..k -> DirEntries] : k \in 0..MaxEntries}

\* a constructor that raised: no object
Failed(e) == [err |-> e, sessions |-> <<>>, phases |-> <<>>]

\* Recording._find_sessions: session_dirs, the folders that hold a Protocol.xml
RECURSIVE session_dirs(_, _)
session_dirs(root, i) ==
    IF i > Len(root) THEN <<>>
    ELSE (IF root[i].isdir /\ root[i].protocol THEN <<i>> ELSE <<>>)
             \o session_dirs(root, i + 1)

\* a Session constructor without the assertion of _get_meta
Session_init_unasserted(root, i) ==
    IF ~root[i].protocol THEN Failed("FileNotFoundError")
    ELSE [err |-> NoErr, sessions |-> <<i>>, phases |-> <<root[i].phases>>]

\* Session.__init__ on folder i: read_neurone_protocol, then _get_meta
Session_init(root, i) ==
    IF ~root[i].protocol THEN Failed("FileNotFoundError")
    ELSE IF ~(Len(root[i].phases) > 0) THEN Failed("AssertionError")
    ELSE [err |-> NoErr, sessions |-> <<i>>, phases |-> <<root[i].phases>>]

\* self.sessions = [Session(path) for path in session_dirs]
RECURSIVE make_sessions(_, _, _)
make_sessions(root, dirs, k) ==
    IF k > Len(dirs) THEN [err |-> NoErr, sessions |-> <<>>, phases |-> <<>>]
    ELSE LET s == Session_init(root, dirs[k])
             rest == make_sessions(root, dirs, k + 1)
         IN IF s.err # NoErr THEN s
            ELSE IF rest.err # NoErr THEN rest
            ELSE [err |-> NoErr, sessions |-> s.sessions \o rest.sessions,
                  phases |-> s.phases \o rest.phases]

\* Recording.__init__
Recording_init(root) ==
    IF ~(Len(session_dirs(root, 1)) > 0) THEN Failed("AssertionError")
    ELSE make_sessions(root, session_dirs(root, 1), 1)

\* a folder on disk, nothing constructed
InitBuild ==
    /\ sessions = <<>>
    /\ phases = <<>>
    /\ InitGraph
    /\ target = "build"
    /\ evTree = NoTree
    /\ evCache = <<>>
    /\ evOut = <<>>
    /\ lz = NoLazy
    /\ disk \in {[root |-> r] : r \in Roots}
    /\ cnt = NoCnt

\* what a constructor call leaves alone
buildFrame == <<dropped, chans, data, heap, loads, warned, steps, writes, target,
                requested, usedInvalid, ret, eventVars, lz, disk, cnt>>

\* the object a constructor call made, or none
Constructed(name, i, obj) ==
    /\ sessions' = obj.sessions
    /\ phases' = obj.phases
    /\ err' = obj.err
    /\ last' = Op(name, i, {}, 0)
    /\ UNCHANGED buildFrame

\* Recording(root)
NewRecording == Constructed("Recording", 0, Recording_init(disk.root))

\* Session(path) on the i-th entry, a folder
NewSession(i) ==
    /\ disk.root[i].isdir
    /\ Constructed("Session", i, Session_init(disk.root, i))

NextBuild ==
    \/ NewRecording
    \/ \E i \in 1..Len(disk.root) : NewSession(i)

\* the constructors called on the folder and on its entries
SpecBuild == InitBuild /\ [][NextBuild]_vars

(***************************************************************************)
(* Lazy and preloadable (lazy.py).  The objects are those of test_lazy.py: *)
(* a preloadable container "c" with a preloadable object "t" as attribute  *)
(* and a list of two, "a1" and "a2"; moreover "a1" holds a preloadable     *)
(* object "g" of its own, as a Session holds Phases, and "c" an object "u" *)
(* whose class is not preloadable.  Every object has one Lazy attribute,   *)
(* lazy_property.  lz.slot is the private attribute of each object,        *)
(* lz.calls the number of times its compute function has run, lz.since    *)
(* that number since the attribute was last deleted, lz.out the value the  *)
(* last read returned and lz.kw the preload argument of the constructor.   *)
(***************************************************************************)
MaxLazySteps == 4

LzObjects == {"c", "t", "a1", "a2", "g", "u"}
\* the objects whose class is decorated with preloadable
LzPreloadable == LzObjects \ {"u"}
\* the values a caller assigns
LzAssigned == {[kind |-> "assigned", n |-> 1], [kind |-> "assigned", n |-> 2]}
\* the private attribute does not exist
LzEmpty == [kind |-> "empty", n |-> 0]
\* the preload argument of the constructor: not given, False or True
LzKeywords == {"absent", "False", "True"}

\* the other attributes of an object, as dir() lists them: a list of objects
\* or one object
LzAttributes(o) ==
    IF o = "c" THEN <<[iterable |-> TRUE, objs |-> <<"a1", "a2">>],
                      [iterable |-> FALSE, objs |-> <<"t">>],
                      [iterable |-> FALSE, objs |-> <<"u">>]>>
    ELSE IF o = "a1" THEN <<[iterable |-> FALSE, objs |-> <<"g">>]>>
    ELSE <<>>

\* the compute function (fget): every run returns a new object
fget(L, o) == [kind |-> "computed", n |-> L.calls[o] + 1]

\* hasattr(instance, self.private_name)
Lazy_has(L, o) == L.slot[o] # LzEmpty

\* a __get__ that runs the compute function on every access
Lazy_get_always(L, o) ==
    [L EXCEPT !.slot[o] = fget(L, o), !.calls[o] = @ + 1, !.out = fget(L, o)]

\* Lazy.__get__
Lazy_get(L, o) ==
    IF Lazy_has(L, o) THEN [L EXCEPT !.out = L.slot[o]]
    ELSE [L EXCEPT !.slot[o] = fget(L, o), !.calls[o] = @ + 1, !.out = fget(L, o)]

\* a __set__ that keeps a value already stored
Lazy_set_once(L, o, value) ==
    IF Lazy_has(L, o) THEN L ELSE [L EXCEPT !.slot[o] = value]

\* Lazy.__set__, no setter given
Lazy_set(L, o, value) == [L EXCEPT !.slot[o] = value]

\* a __delete__ that is plain delattr: AttributeError when nothing is stored
Lazy_delete_unguarded(L, o) ==
    IF Lazy_has(L, o) THEN [L EXCEPT !.slot[o] = LzEmpty]
    ELSE [L EXCEPT !.err = "AttributeError"]

\* Lazy.__delete__, no deleter given
Lazy_delete(L, o) ==
    IF Lazy_has(L, o) THEN [L EXCEPT !.slot[o] = LzEmpty] ELSE L

\* the objects _preload reaches from the attributes of o, in dir() order
RECURSIVE LzReached(_, _)
LzReached(o, a) ==
    IF a > Len(LzAttributes(o)) THEN <<>>
    ELSE LzAttributes(o)[a].objs \o LzReached(o, a + 1)

\* a preload that reads the Lazy attribute of the object and goes no further
preload_shallow(L, o) ==
    Lazy_get(IF Lazy_has(L, o) THEN L ELSE Lazy_get(L, o), o)

\* _preload: the Lazy attribute is read when nothing is stored, then every
\* attribute is read and its value, or each element of it when it is
\* iterable, is preloaded if it has a preload method (_try_preload_child)
RECURSIVE preload(_, _)
RECURSIVE preload_children(_, _, _)
preload(L, o) ==
    preload_children(Lazy_get(IF Lazy_has(L, o) THEN L ELSE Lazy_get(L, o), o),
                     LzReached(o, 1), 1)

preload_children(L, xs, k) ==
    IF k > Len(xs) THEN L
    ELSE preload_children(IF xs[k] \in LzPreloadable THEN preload(L, xs[k]) ELSE L,
                          xs, k + 1)

\* the objects as their constructors leave them, nothing stored
LzFresh(kw) ==
    [slot |-> [o \in LzObjects |-> LzEmpty],
     calls |-> [o \in LzObjects |-> 0],
     since |-> [o \in LzObjects |-> 0],
     out |-> LzEmpty,
     err |-> NoErr,
     kw |-> kw]

\* _new_init of the container: the constructor, then preload() if asked for
new_init(kw) == IF kw = "True" THEN preload(LzFresh(kw), "c") ELSE LzFresh(kw)

\* the compute calls of a call counted since the last deletion
LzCounted(L) ==
    [L EXCEPT !.since = [o \in LzObjects |-> lz.since[o] + L.calls[o] - lz.calls[o]]]

\* the container has been constructed, with or without preload
InitLazy ==
    /\ sessions = <<>>
    /\ phases = <<>>
    /\ InitGraph
    /\ target = "lazy"
    /\ evTree = NoTree
    /\ evCache = <<>>
    /\ evOut = <<>>
    /\ lz \in {[new_init(kw) EXCEPT !.since = new_init(kw).calls] : kw \in LzKeywords}
    /\ disk = NoDisk
    /\ cnt = NoCnt

\* what a call on the objects leaves alone
lazyFrame == <<sessions, phases, dropped, chans, data, heap, loads, warned, writes,
               target, requested, usedInvalid, ret, eventVars, disk, cnt>>

\* a call on object o, with argument n, that leaves the objects as L
LzCall(name, o, n, L) ==
    /\ steps < MaxLazySteps
    /\ lz' = LzCounted(L)
    /\ err' = L.err
    /\ last' = Op(name, o, {}, n)
    /\ steps' = steps + 1
    /\ UNCHANGED lazyFrame

\* value = o.lazy_property
LzGet(o) == LzCall("lazy_get", o, 0, Lazy_get([lz EXCEPT !.err = NoErr], o))

\* o.lazy_property = value
LzSet(o, value) ==
    LzCall("lazy_set", o, value.n, Lazy_set([lz EXCEPT !.err = NoErr], o, value))

\* del o.lazy_property
LzDelete(o) ==
    /\ steps < MaxLazySteps
    /\ lz' = [Lazy_delete([lz EXCEPT !.err = NoErr], o) EXCEPT !.since[o] = 0]
    /\ err' = lz'.err
    /\ last' = Op("lazy_delete", o, {}, 0)
    /\ steps' = steps + 1
    /\ UNCHANGED lazyFrame

\* o.preload()
LzPreload(o) == LzCall("preload", o, 0, preload([lz EXCEPT !.err = NoErr], o))

NextLazy ==
    \/ \E o \in LzObjects : LzGet(o)
    \/ \E o \in LzObjects, value \in LzAssigned : LzSet(o, value)
    \/ \E o \in LzObjects : LzDelete(o)
    \/ \E o \in LzPreloadable : LzPreload(o)

\* the objects under any sequence of reads, assignments, deletions and preloads
SpecLazy == InitLazy /\ [][NextLazy]_vars

(***************************************************************************)
(* Lazy.__get__ under threads.  A thread switch can happen between any two *)
(* statements of __get__, so a read is five steps: hasattr, then getattr   *)
(* or the compute function and setattr, then return.  lz.pc is where each  *)
(* thread is, lz.obj the object it reads, lz.result its local variable     *)
(* result, lz.out what its last read returned and lz.left the reads it may *)
(* still start.                                                            *)
(***************************************************************************)
MaxAccesses == 2
ThreadIds == {1, 2}
\* the objects the threads read lazy_property of
ThreadObjects == {"c", "t"}

\* a hasattr test that always finds nothing stored
get_hasattr_blind(L, t) == [L EXCEPT !.pc[t] = "fget"]

\* if hasattr(instance, self.private_name): ... else: ...
get_hasattr(L, t) ==
    [L EXCEPT !.pc[t] = IF Lazy_has(L, L.obj[t]) THEN "getattr" ELSE "fget"]

\* result = getattr(instance, self.private_name); AttributeError when the
\* attribute is not there
get_getattr(L, t) ==
    IF Lazy_has(L, L.obj[t])
    THEN [L EXCEPT !.result[t] = L.slot[L.obj[t]], !.pc[t] = "return"]
    ELSE [L EXCEPT !.err = "AttributeError", !.pc[t] = "idle"]

\* result = self.fget(instance)
get_fget(L, t) ==
    [L EXCEPT !.result[t] = fget(L, L.obj[t]),
              !.calls[L.obj[t]] = @ + 1,
              !.pc[t] = "setattr"]

\* setattr(instance, self.private_name, result)
get_setattr(L, t) ==
    [L EXCEPT !.slot[L.obj[t]] = L.result[t], !.pc[t] = "return"]

\* return result
get_return(L, t) == [L EXCEPT !.out[t] = L.result[t], !.pc[t] = "idle"]

\* the objects as their constructors leave them and the threads that use them
ThreadsFresh(threads) ==
    [slot |-> [o \in LzObjects |-> LzEmpty],
     calls |-> [o \in LzObjects |-> 0],
     err |-> NoErr,
     threads |-> threads,
     pc |-> [t \in ThreadIds |-> "idle"],
     obj |-> [t \in ThreadIds |-> "c"],
     result |-> [t \in ThreadIds |-> LzEmpty],
     out |-> [t \in ThreadIds |-> LzEmpty],
     left |-> [t \in ThreadIds |-> MaxAccesses]]

\* nothing is stored; one thread or two use the objects
InitThreads ==
    /\ sessions = <<>>
    /\ phases = <<>>
    /\ InitGraph
    /\ target = "threads"
    /\ evTree = NoTree
    /\ evCache = <<>>
    /\ evOut = <<>>
    /\ lz \in {ThreadsFresh({1}), ThreadsFresh(ThreadIds)}
    /\ disk = NoDisk
    /\ cnt = NoCnt

\* thread t makes the next step of its read, which leaves the objects as L
ThreadStep(t, at, L) ==
    /\ t \in lz.threads
    /\ lz.pc[t] = at
    /\ lz' = L
    /\ UNCHANGED <<lazyFrame, steps, err, last>>

\* thread t starts value = o.lazy_property
ThreadBegin(t, o) ==
    /\ lz.left[t] > 0
    /\ ThreadStep(t, "idle", [lz EXCEPT !.pc[t] = "hasattr", !.obj[t] = o,
                                        !.left[t] = @ - 1])

ThreadHasattr(t) == ThreadStep(t, "hasattr", get_hasattr(lz, t))
ThreadGetattr(t) == ThreadStep(t, "getattr", get_getattr(lz, t))
ThreadFget(t) == ThreadStep(t, "fget", get_fget(lz, t))
ThreadSetattr(t) == ThreadStep(t, "setattr", get_setattr(lz, t))
ThreadReturn(t) == ThreadStep(t, "return", get_return(lz, t))

NextThreads ==
    \/ \E t \in ThreadIds, o \in ThreadObjects : ThreadBegin(t, o)
    \/ \E t \in ThreadIds : ThreadHasattr(t)
    \/ \E t \in ThreadIds : ThreadGetattr(t)
    \/ \E t \in ThreadIds : ThreadFget(t)
    \/ \E t \in ThreadIds : ThreadSetattr(t)
    \/ \E t \in ThreadIds : ThreadReturn(t)

\* reads of lazy_property by one thread or by two, interleaved in any way
SpecThreads == InitThreads /\ [][NextThreads]_vars

(***************************************************************************)
(* Properties.                                                             *)
(***************************************************************************)
\* a node and its descendants
Subtree(n) == {n} \cup Descendants(n)

\* the phases in the order they were recorded: by the time_start of their
\* session, then by their number
SampleOrder == <<"p11", "p12", "p21">>

\* the samples of a node as they are on disk, every channel of the protocol
Original(n) ==
    LET F[i \in 0..Len(SampleOrder)] ==
            IF i = 0 THEN <<>>
            ELSE IF SampleOrder[i] \in Subtree(n)
            THEN F[i - 1] \o SourceData(SampleOrder[i])
            ELSE F[i - 1]
    IN F[Len(SampleOrder)]

\* a cell is a sample of one of the named channels
OfChannel(cell, names) ==
    /\ cell[1] \in Phases
    /\ ProtocolChannels(SessionOf(cell[1]))[cell[3]] \in names

\* rows without the cells of the named channels, the other cells in place
WithoutChannels(rows, names) ==
    [r \in 1..Len(rows) |-> SelectSeq(rows[r], LAMBDA cell : ~OfChannel(cell, names))]

\* the row ranges of the views of parts split the rows of the view of whole
Splits(parts, whole) ==
    /\ \A m \in parts :
          /\ data[m].buf = data[whole].buf
          /\ data[whole].lo <= data[m].lo
          /\ data[m].lo <= data[m].hi
          /\ data[m].hi <= data[whole].hi
    /\ \A r \in (data[whole].lo + 1)..data[whole].hi :
          Cardinality({m \in parts : data[m].lo < r /\ r <= data[m].hi}) = 1

\* the data of every node is a view of the one buffer of the Recording
ViewsOfOneBuffer ==
    /\ \A n \in Nodes : data[n].buf # 0
    /\ data[Rec].lo = 0
    /\ data[Rec].hi = Len(heap[data[Rec].buf])
    /\ Splits(Sessions, Rec)
    /\ \A s \in Sessions : Splits(PhasesOf(s), s)

\* the view of m holds row k of its buffer
HasRow(m, k) == data[m].lo < k /\ k <= data[m].hi

\* the value the last write stored shows at buffer row k in the data of m
ShowsWrite(m, k) ==
    LET rows == ArrayOf(Cur, m)
    IN rows[k - data[m].lo][NCols(rows)] = <<"w", 0, writes>>

\* C1: once Recording.data has been computed, the data of the Recording, of
\* every Session and of every Phase are views of one buffer, the Sessions'
\* rows splitting the Recording's and the Phases' rows their Session's; from
\* then on reading data at any node loads nothing and changes no view, and an
\* element written through the data of any node shows, at the row of the
\* buffer it went to, in the data of the Recording, of one Session and of one
\* Phase.
C1_Aliasing ==
    [][/\ (data[Rec].buf = 0 /\ last'.op = "data" /\ last'.node = Rec /\ err' = NoErr)
              => ViewsOfOneBuffer'
       /\ (ViewsOfOneBuffer /\ last'.op \in {"data", "write"})
              => /\ err' = NoErr
                 /\ loads' = {}
                 /\ data' = data
                 /\ ViewsOfOneBuffer'
       /\ (ViewsOfOneBuffer /\ last'.op = "write")
              => \A k \in 1..Recording_n_samples :
                    k = data[last'.node].lo + last'.row
                        => /\ Cardinality({s \in Sessions : HasRow(s, k)}) = 1
                           /\ Cardinality({p \in Phases : HasRow(p, k)}) = 1
                           /\ \A m \in Nodes :
                                 (m = Rec \/ HasRow(m, k)) => ShowsWrite(m, k)'
      ]_vars

\* an element written through the data of a Phase after Recording.data was
\* computed shows in the data of its Session and of the Recording
C1_PhaseWriteSeen ==
    /\ last.op = "write"
    /\ last.node \in Phases
    /\ ViewsOfOneBuffer
    /\ <<"w", 0, 1>> \in UNION {Range(row) : row \in Range(ArrayOf(Cur, Rec))}
    /\ <<"w", 0, 1>> \in UNION {Range(row) : row \in Range(ArrayOf(Cur, SessionOf(last.node)))}

\* the shape of the data read on graph S1 is what n_samples and n_channels say
ShapeMatches(S1, n) ==
    (S1.err = NoErr /\ n_channels_ok(S1, n))
        => /\ Len(ArrayOf(S1, n)) = n_samples(n)
           /\ NCols(ArrayOf(S1, n)) = n_channels(S1, n)

\* C2: for every node, after any sequence of drop_channels, clear_data and
\* data reads made on it, a read of data that succeeds yields n_samples rows
\* and n_channels columns.
C2_DataShape ==
    target \in Nodes => ShapeMatches(data_read(Cur, target), target)

\* C3: for every node in every reachable state, len(channels) = n_channels
\* whenever both can be read.
C3_ChannelCount ==
    \A n \in Nodes :
        (channels(Cur, n).err = NoErr /\ n_channels_ok(Cur, n))
            => Len(channels_value(Cur, n)) = n_channels(Cur, n)

\* the data read on graph S1 and the channels of n are the originals without
\* the named channels
DroppedExactly(S1, n, names) ==
    /\ S1.err = NoErr
    /\ ArrayOf(S1, n) = WithoutChannels(Original(n), names)
    /\ channels(S1, n).err = NoErr
    /\ channels_value(S1, n) = Without(ProtocolChannels(sessions[1]), names)

\* C4: for a Phase, a Session and a Recording and drop_channels calls that
\* name visible channels only, made before or after data is loaded, in one
\* call or in several: data is the original buffer without the columns of
\* the names given so far, the other columns in their order, and channels is
\* the original list without those names.
C4_DropColumns ==
    (target \in Nodes /\ ~usedInvalid)
        => DroppedExactly(data_read(Cur, target), target, requested)

\* two channels were dropped in two calls, the second on loaded data
C4_TwoCallsLoaded ==
    /\ target \in Nodes
    /\ ~usedInvalid
    /\ requested = {"Fp1", "Fp2"}
    /\ last.op = "drop"
    /\ Cardinality(last.names) = 1
    /\ data[target].buf # 0
    /\ NCols(ArrayOf(Cur, target)) = 1

\* on graph S2 no node under n shows one of the named channels, in channels
\* or in data
Excluded(S2, n, names) ==
    /\ S2.err = NoErr
    /\ \A m \in Subtree(n) :
          /\ channels(S2, m).err = NoErr
          /\ Range(channels_value(S2, m)) \cap names = {}
          /\ S2.data[m].buf # 0
          /\ \A r \in 1..Len(ArrayOf(S2, m)) :
                \A c \in 1..Len(ArrayOf(S2, m)[r]) :
                    ~OfChannel(ArrayOf(S2, m)[r][c], names)

\* C5: after drop_channels(names) on a node, clear_data() and a read of data
\* succeed and the data and channels read then exclude every name of the
\* call, at the node and at its descendants.
C5_DropPersists ==
    (last.op = "drop" /\ err = NoErr)
        => Excluded(data_read(clear_data(Cur, last.node), last.node),
                    last.node, last.names)

\* C6: drop_channels of visible channels on a Recording or a Session whose
\* data is materialized leaves the data of the node and of every Session and
\* Phase under it that had data as it was without the columns of those
\* channels, and none of them lists the channels any more.
C6_DropShrinksAll ==
    [][(/\ last'.op = "drop"
        /\ last'.node \in {Rec} \cup Sessions
        /\ data[last'.node].buf # 0
        /\ AllVisible(last'.node, last'.names)
        /\ err' = NoErr)
          => \A m \in Nodes :
                m \in Subtree(last'.node)
                    => /\ data[m].buf # 0
                             => /\ data'[m].buf # 0
                                /\ ArrayOf(Cur, m)'
                                       = WithoutChannels(ArrayOf(Cur, m), last'.names)
                       /\ channels(Cur, m)'.err = NoErr
                       /\ Range(channels_value(Cur, m)') \cap last'.names = {}
      ]_vars

\* the names of a call that are channels the node shows
Resolved(n, names) == names \cap Range(channels_value(Cur, n))

\* C7: drop_channels with names that resolve to no visible channel raises
\* nothing, a warning names them, the names that resolve are channels no
\* more, and no other name enters the drop set of the node or of a
\* descendant.
C7_UnresolvedSkipped ==
    [][\A n \in Nodes :
          (last'.op = "drop" /\ last'.node = n /\ channels(Cur, n).err = NoErr)
              => LET resolved == Resolved(n, last'.names)
                     unresolved == last'.names \ resolved
                 IN /\ err' = NoErr
                    /\ unresolved # {} => \E w \in warned' : unresolved \subseteq w[2]
                    /\ channels(Cur, n)'.err = NoErr
                          => Range(channels_value(Cur, n)') \cap resolved = {}
                    /\ \A m \in Subtree(n) : dropped'[m] \ dropped[m] \subseteq resolved
      ]_vars

\* the channels node n shows on graph S1, its channels having been read
Shown(S1, n) ==
    IF S1.err # NoErr THEN {}
    ELSE IF n = Rec THEN Range(Without(S1.chans[sessions[1]], S1.dropped[Rec]))
    ELSE Range(S1.chans[n])

\* C8: the drop set of a node only grows, whatever the operation, and no
\* name in it is in the channels the node shows.
C8_DropSetGrows ==
    /\ [][\A n \in Nodes : dropped[n] \subseteq dropped'[n]]_vars
    /\ [](\A n \in Nodes : Shown(channels(Cur, n), n) \cap dropped[n] = {})

\* a channel dropped from a node is still dropped after its data was cleared
\* or read
C8_StaysDropped ==
    /\ last.op \in {"data", "clear"}
    /\ err = NoErr
    /\ "Fp1" \in dropped[last.node]
    /\ "Fp1" \notin Range(channels_value(Cur, last.node))

\* C9: drop_channels on a node leaves the drop set, the channels and the
\* cached data of every node that is neither the node nor a descendant of it
\* as they were.
C9_DropFrame ==
    [][last'.op = "drop"
          => \A m \in Nodes :
                m \notin Subtree(last'.node)
                    => /\ dropped'[m] = dropped[m]
                       /\ (data'[m].buf = 0) = (data[m].buf = 0)
                       /\ data[m].buf # 0 => ArrayOf(Cur, m)' = ArrayOf(Cur, m)
                       /\ channels(Cur, m)'.err = channels(Cur, m).err
                       /\ channels(Cur, m).err = NoErr
                             => channels_value(Cur, m)' = channels_value(Cur, m)
      ]_vars

\* the record of events.bin a row of an events table came from
LocalEvent(e) ==
    evTree.sessions[e.record[1]].phases[e.record[2]].events[e.record[3]]

\* the n_samples of the Phases of Session i with a smaller number than Phase j
SamplesBeforePhase(i, j) ==
    LET before == {k \in EventPhases(i) :
                      StrLess(evTree.sessions[i].phases[k].number,
                              evTree.sessions[i].phases[j].number)}
        F[k \in 0..Len(evTree.sessions[i].phases)] ==
            IF k = 0 THEN 0
            ELSE F[k - 1] + (IF k \in before THEN EventPhase_n_samples(i, k) ELSE 0)
    IN F[Len(evTree.sessions[i].phases)]

\* the n_samples of the Sessions with an earlier time_start than Session i
SamplesBeforeSession(i) ==
    LET F[k \in 0..Len(evTree.sessions)] ==
            IF k = 0 THEN 0
            ELSE F[k - 1] + (IF evTree.sessions[k].time_start < evTree.sessions[i].time_start
                             THEN EventSession_n_samples(k) ELSE 0)
    IN F[Len(evTree.sessions)]

\* the row of Session i's events for the same record as row e
SessionEvent(i, e) ==
    CHOOSE x \in Range(Session_events(evCache, i)) : x.record = e.record

\* C10: every row of Session.events has the StartSampleIndex and
\* StopSampleIndex of its record in the Phase's events.bin plus the n_samples
\* of the Phases before that Phase, and every row of Recording.events has
\* those of the row in its Session's events plus the n_samples of the
\* Sessions before that Session, whatever events the children before have.
C10_EventOffsets ==
    /\ last.op = "session_events"
          => \A e \in Range(evOut) :
                LET before == SamplesBeforePhase(e.record[1], e.record[2])
                IN /\ e.StartSampleIndex = LocalEvent(e).StartSampleIndex + before
                   /\ e.StopSampleIndex = LocalEvent(e).StopSampleIndex + before
    /\ last.op = "recording_events"
          => \A e \in Range(evOut) :
                LET before == SamplesBeforeSession(e.record[1])
                    local == SessionEvent(e.record[1], e)
                IN /\ e.StartSampleIndex = local.StartSampleIndex + before
                   /\ e.StopSampleIndex = local.StopSampleIndex + before

\* the records of the events.bin of Phase <<i, j>> are in ascending
\* StartSampleIndex order (every index is below the Phase's n_samples)
PhaseAscending(i, j) ==
    LET ev == evTree.sessions[i].phases[j].events
    IN \A a, b \in 1..Len(ev) :
          a < b => ev[a].StartSampleIndex <= ev[b].StartSampleIndex

\* the Phases whose events the last read concatenated
PhasesRead ==
    IF last.op = "phase_events" THEN {last.node}
    ELSE IF last.op = "session_events"
    THEN {pos \in EventPositions : pos[1] = last.node}
    ELSE IF last.op = "recording_events" THEN EventPositions
    ELSE {}

\* C11: the StartSampleIndex column of the events of a Phase, a Session or a
\* Recording is non-decreasing when the records of every Phase under it are
\* in ascending StartSampleIndex order.
C11_EventsOrdered ==
    (\A pos \in PhasesRead : PhaseAscending(pos[1], pos[2]))
        => \A a, b \in 1..Len(evOut) :
              a < b => evOut[a].StartSampleIndex <= evOut[b].StartSampleIndex

\* a Recording's events hold rows of two Sessions, the row of the later
\* Session with the smaller StartSampleIndex in its own events.bin
C11_LaterSessionSmallerIndex ==
    /\ last.op = "recording_events"
    /\ \A pos \in EventPositions : PhaseAscending(pos[1], pos[2])
    /\ \E a, b \in 1..Len(evOut) :
          /\ a < b
          /\ evOut[a].record[1] # evOut[b].record[1]
          /\ LocalEvent(evOut[b]).StartSampleIndex < LocalEvent(evOut[a]).StartSampleIndex

\* C12: when the Sessions of a Recording report different sampling rates, a
\* read of Recording.sampling_rate and a read of Recording.events end with an
\* error and return no value.
C12_RateMismatchFails ==
    (last.op \in {"recording_sampling_rate", "recording_events"}
        /\ Cardinality(SessionRates) > 1)
        => err # NoErr

\* the last call was the given operation on object o
LzDid(name, o) == last.op = name /\ last.node = o

\* C13: the compute function of a Lazy attribute runs only when nothing is
\* stored, once, and its result is stored and returned; a read of a stored
\* value returns it and runs nothing; so between two deletions compute runs
\* at most once.
C13_ComputeOnce ==
    /\ [][lz # NoLazy =>
            \A o \in LzObjects :
               /\ lz'.calls[o] # lz.calls[o]
                     => /\ lz.slot[o] = LzEmpty
                        /\ lz'.calls[o] = lz.calls[o] + 1
                        /\ lz'.slot[o] = [kind |-> "computed", n |-> lz'.calls[o]]
               /\ LzDid("lazy_get", o)'
                     => /\ lz'.out = lz'.slot[o]
                        /\ lz.slot[o] = LzEmpty => lz'.calls[o] = lz.calls[o] + 1
                        /\ lz.slot[o] # LzEmpty
                              => lz'.slot[o] = lz.slot[o] /\ lz'.calls[o] = lz.calls[o]
         ]_vars
    /\ [](lz # NoLazy => \A o \in LzObjects : lz.since[o] <= 1)

\* an attribute stored by the preload of the constructor was read: the read
\* returned the stored value and compute has run once
C13_StoredValueRead ==
    /\ lz # NoLazy
    /\ lz.kw = "True"
    /\ steps = 1
    /\ last.op = "lazy_get"
    /\ lz.out = [kind |-> "computed", n |-> 1]
    /\ lz.calls[last.node] = 1

\* C14: deleting a Lazy attribute raises nothing and leaves nothing stored,
\* and the read that follows runs compute again; when nothing was stored the
\* deletion changes nothing.
C14_DeleteEmpties ==
    [][lz # NoLazy =>
          \A o \in LzObjects :
             /\ LzDid("lazy_delete", o)'
                   => /\ err' = NoErr
                      /\ lz'.slot[o] = LzEmpty
                      /\ \A x \in LzObjects \ {o} : lz'.slot[x] = lz.slot[x]
                      /\ lz'.calls = lz.calls
                      /\ lz.slot[o] = LzEmpty => lz'.slot = lz.slot
             /\ (LzDid("lazy_delete", o) /\ LzDid("lazy_get", o)')
                   => /\ lz'.calls[o] = lz.calls[o] + 1
                      /\ lz'.out = [kind |-> "computed", n |-> lz'.calls[o]]
                      /\ lz'.slot[o] = lz'.out
      ]_vars

\* a computed attribute was deleted and read again: compute ran a second time
C14_RecomputedAfterDelete ==
    /\ lz # NoLazy
    /\ last.op = "lazy_get"
    /\ lz.calls[last.node] = 2
    /\ lz.out = [kind |-> "computed", n |-> 2]

\* C15: assigning to a Lazy attribute stores the value and runs no compute,
\* whatever was stored before; a read of an assigned value returns it and
\* runs nothing, and the value stays stored until the attribute is assigned
\* or deleted.
C15_AssignStores ==
    [][lz # NoLazy =>
          \A o \in LzObjects :
             /\ LzDid("lazy_set", o)'
                   => /\ err' = NoErr
                      /\ lz'.slot[o] = [kind |-> "assigned", n |-> last'.row]
                      /\ \A x \in LzObjects \ {o} : lz'.slot[x] = lz.slot[x]
                      /\ lz'.calls = lz.calls
             /\ (lz.slot[o] \in LzAssigned /\ LzDid("lazy_get", o)')
                   => /\ lz'.out = lz.slot[o]
                      /\ lz'.calls = lz.calls
             /\ (lz.slot[o] \in LzAssigned /\ lz'.slot[o] # lz.slot[o])
                   => LzDid("lazy_set", o)' \/ LzDid("lazy_delete", o)'
      ]_vars

\* an attribute that had been computed was assigned, and the read after it
\* returned the assigned value
C15_AssignedOverComputed ==
    /\ lz # NoLazy
    /\ last.op = "lazy_get"
    /\ lz.out \in LzAssigned
    /\ lz.calls[last.node] = 1

\* C16: _has_data() returns true exactly when the data slot of the node
\* holds a value; the call loads nothing, raises nothing and leaves the drop
\* sets, the channels, the data slots and the arrays of all nodes as they were.
C16_HasDataPure ==
    [][last'.op = "has_data"
          => /\ ret' = (IF data[last'.node] # NoData THEN "True" ELSE "False")
             /\ err' = NoErr
             /\ loads' = {}
             /\ UNCHANGED <<dropped, chans, data, heap>>
      ]_vars

\* _has_data() answered true for a node while another node held no data
C16_AskedLoaded ==
    /\ last.op = "has_data"
    /\ ret = "True"
    /\ \E n \in Nodes : data[n] = NoData

\* the objects whose preload() a call of o.preload() runs: o, and those of
\* its preloadable attributes and elements of attributes
RECURSIVE LzPreloaded(_)
LzPreloaded(o) ==
    {o} \cup UNION {LzPreloaded(x) : x \in Range(LzReached(o, 1)) \cap LzPreloadable}

\* C17: preload() on an object leaves its Lazy attribute populated and that
\* of every preloadable child reached through an attribute or an element of
\* an iterable attribute; a container constructed with preload=True is in
\* that state from construction, one constructed without preload or with
\* preload=False has nothing populated.
C17_PreloadPopulates ==
    /\ [][\A o \in LzPreloadable :
            LzDid("preload", o)' => \A x \in LzPreloaded(o) : Lazy_has(lz', x)]_vars
    /\ [](lz # NoLazy /\ steps = 0
            => IF lz.kw = "True"
               THEN \A x \in LzPreloaded("c") : Lazy_has(lz, x)
               ELSE \A x \in LzObjects : ~Lazy_has(lz, x))

\* preload() on the container constructed without preload has computed the
\* attribute of the child of an element of its list
C17_GrandchildLoaded ==
    /\ LzDid("preload", "c")
    /\ steps = 1
    /\ lz.kw = "absent"
    /\ lz.slot["g"] = [kind |-> "computed", n |-> 1]
    /\ ~Lazy_has(lz, "u")

\* C18: preload() on an object whose Lazy attribute is already stored runs
\* the compute function of that attribute again.
C18_PreloadReloads ==
    [][\A o \in LzPreloadable :
          LzDid("preload", o)' /\ Lazy_has(lz, o)
              => /\ lz'.calls[o] = lz.calls[o] + 1
                 /\ lz'.slot[o] = [kind |-> "computed", n |-> lz'.calls[o]]
      ]_vars

\* C19: after clear_data() on a node, _has_data() is false for the node and
\* for every node below it (the Phases of a Session; the Sessions and Phases
\* of a Recording); the call raises nothing, and when none of these nodes
\* held data it changes nothing.
C19_ClearEmptiesSubtree ==
    [][last'.op = "clear"
          => /\ err' = NoErr
             /\ \A m \in Subtree(last'.node) :
                    BaseContainer_has_data(Cur, m)'.ret = "False"
             /\ (\A m \in Subtree(last'.node) : data[m] = NoData)
                    => UNCHANGED <<dropped, chans, data, heap>>
      ]_vars

\* the Recording's data was read, which left every node a view, and then a
\* Session was cleared: the Recording still holds its array
C19_SessionClearedUnderRecording ==
    /\ last.op = "clear"
    /\ last.node \in Sessions
    /\ steps = 2
    /\ data[Rec] # NoData
    /\ \A m \in Subtree(last.node) : data[m] = NoData

\* C20: on any node, after any sequence of drop_channels calls, reads and
\* clears made on it, clear_data() and a read of data succeed and yield the
\* samples of the source without the columns of the channels named in the
\* drop_channels calls so far.
C20_ClearReloadSame ==
    target \in Nodes
        => Then(data_read(clear_data(Cur, target), target), LAMBDA S2 :
               /\ S2.err = NoErr
               /\ ArrayOf(S2, target) = WithoutChannels(Original(target), requested))

\* the number a string of digits stands for
RECURSIVE NumberOf(_)
NumberOf(digits) ==
    IF digits = <<>> THEN 0
    ELSE 10 * NumberOf(SubSeq(digits, 1, Len(digits) - 1)) + digits[Len(digits)]

\* the row of Phase <<i, j>> comes no later than that of Phase <<k, l>> when
\* Sessions go by time_start and the Phases of a Session by phase number
ChildOrder(a, b) ==
    LET sa == evTree.sessions[a[1]]
        sb == evTree.sessions[b[1]]
    IN \/ sa.time_start < sb.time_start
       \/ /\ a[1] = b[1]
          /\ NumberOf(sa.phases[a[2]].number) <= NumberOf(sb.phases[b[2]].number)

\* C21: the events a Session or a Recording returns are those of its Phases
\* in ascending phase-number order, the Sessions in ascending time_start
\* order, whatever the order the lists enumerate them in.
C21_AscendingOrder ==
    (last.op \in {"session_events", "recording_events"} /\ err = NoErr)
        => \A x, y \in 1..Len(evOut) :
              x < y => ChildOrder(evOut[x].record, evOut[y].record)

\* C22: Recording(root) on a folder without a session folder raises
\* AssertionError, Session(path) on a session folder whose protocol lists no
\* phase raises AssertionError, and neither leaves an object; a Recording
\* that holds such a Session is not constructed either.
C22_EmptyRejected ==
    /\ (last.op = "Recording" /\ session_dirs(disk.root, 1) = <<>>)
          => err = "AssertionError" /\ sessions = <<>> /\ phases = <<>>
    /\ (last.op = "Session" /\ disk.root[last.node].protocol
                            /\ disk.root[last.node].phases = <<>>)
          => err = "AssertionError" /\ sessions = <<>> /\ phases = <<>>
    /\ (last.op = "Recording" /\ err = NoErr)
          => /\ sessions # <<>>
             /\ \A k \in 1..Len(phases) : phases[k] # <<>>

\* Recording(root) failed on a folder that holds files and folders but
\* no folder with a Protocol.xml
C22_NoSessionFolder ==
    /\ last.op = "Recording"
    /\ err = "AssertionError"
    /\ Len(disk.root) = MaxEntries
    /\ \E i, j \in 1..Len(disk.root) : disk.root[i].isdir /\ ~disk.root[j].isdir
    /\ session_dirs(disk.root, 1) = <<>>

\* what the Phases of a Session report as n_channels
PhaseCounts(s) == {Phase_n_channels(Cur, p) : p \in Range(phases[s])}

\* the numbers of channels reported below a Session or the Recording: a
\* Session reports that of its Phases, or fails when they differ
ChildCounts(n) ==
    IF n = Rec THEN UNION {PhaseCounts(s) : s \in Range(sessions)}
    ELSE PhaseCounts(n)

\* C23: a read of n_channels on a Session or on the Recording raises
\* AssertionError when its children report different values and returns
\* the common value otherwise; it changes nothing; in the same states a
\* read of n_samples succeeds.
C23_CountChecked ==
    [][/\ (last'.op = "n_channels" /\ last'.node \notin Phases)
              => /\ IF Cardinality(ChildCounts(last'.node)) > 1
                    THEN err' = "AssertionError"
                    ELSE err' = NoErr /\ ChildCounts(last'.node) = {ret'}
                 /\ UNCHANGED <<dropped, chans, data, heap>>
       /\ last'.op = "n_samples" => err' = NoErr /\ ret' = n_samples(last'.node)
      ]_vars

\* n_channels of a Session raised after one call of drop_channels on one of
\* its Phases had left the Phases with different numbers of channels
C23_MismatchRaised ==
    /\ last.op = "n_channels"
    /\ last.node \in Sessions
    /\ err = "AssertionError"
    /\ steps = 2
    /\ Cardinality(PhaseCounts(last.node)) = 2

\* the rows of the samples of the Phases under n that come before Phase p
RowsBefore(n, p) ==
    LET F[i \in 0..Len(SampleOrder)] ==
            IF i = 0 THEN 0
            ELSE IF SampleOrder[i] \in Subtree(n) /\ i < indexOf(SampleOrder, p)
            THEN F[i - 1] + FileSamples(SampleOrder[i])
            ELSE F[i - 1]
    IN F[Len(SampleOrder)]

\* C24: when Session.data or Recording.data is computed, the rows of every
\* Phase below that held data are taken from that data, not from the source:
\* the rows of the Phase in the aggregate are the rows it held, elements
\* written into them included, without the columns of the channels in the
\* drop set of the aggregating node; such a Phase is not read from source.
C24_HeldDataReused ==
    [][\A n \in {Rec} \cup Sessions :
          (/\ last'.op = "data"
           /\ last'.node = n
           /\ data[n] = NoData
           /\ err' = NoErr)
             => \A p \in Phases :
                   (p \in Subtree(n) /\ data[p] # NoData)
                       => /\ p \notin loads'
                          /\ SubSeq(ArrayOf(Cur, n)',
                                    RowsBefore(n, p) + 1,
                                    RowsBefore(n, p) + FileSamples(p))
                                 = WithoutChannels(ArrayOf(Cur, p), dropped[n])
      ]_vars

\* an element was written into the data of a Phase, then the data of its
\* Session was computed and shows the element in the row of the Phase
C24_WriteSeenInSession ==
    /\ last.op = "data"
    /\ last.node \in Sessions
    /\ steps = 2
    /\ writes = 1
    /\ err = NoErr
    /\ loads # {}
    /\ loads # PhasesOf(last.node)
    /\ \E r \in 1..Len(ArrayOf(Cur, last.node)) :
          <<"w", 0, 1>> \in Range(ArrayOf(Cur, last.node)[r])

\* the code event k of the table is to be encoded with
StimCode(events, sub, k) ==
    IF events[k].Code = 0 THEN sub.value ELSE events[k].Code

\* some stim channel holds the code from the first to the last sample of event k
Encoded(stim, events, sub, k) ==
    \E c \in 1..Len(stim) :
        \A j \in (events[k].StartSampleIndex + 1)..(events[k].StopSampleIndex + 1) :
            stim[c][j] = StimCode(events, sub, k)

\* C25: to_mne fails when an event has code 0 and no substitute is given,
\* and when the substitute given is not an int or occurs among the event
\* codes, with AssertionError whenever the channels and the data of the
\* container can be read; a call that fails returns nothing; after a call
\* that succeeds every event is encoded in a stim channel, with the
\* substitute if its code is 0 and with its own code otherwise.
C25_ZeroCodes ==
    [][\A n \in Nodes :
          (last'.op = "to_mne" /\ last'.node = n)
              => LET events == cnt'.events
                     sub == cnt'.substitute
                     refused ==
                         \/ sub.kind = "None" /\ 0 \in event_codes(events)
                         \/ sub.kind = "str"
                         \/ sub.kind = "int" /\ sub.value \in event_codes(events)
                 IN /\ refused => err' # NoErr
                    /\ (refused /\ data_read(channels(Cur, n), n).err = NoErr)
                          => err' = "AssertionError"
                    /\ err' # NoErr => cnt'.stim = NoStim
                    /\ err' = NoErr
                          => \A k \in 1..Len(events) : Encoded(cnt'.stim, events, sub, k)
      ]_vars

\* to_mne succeeded with a substitute on two events at one sample, one of
\* code 0 and one of code 1, which went to two stim channels
C25_TwoCodesOneSample ==
    /\ last.op = "to_mne"
    /\ err = NoErr
    /\ cnt.substitute = [kind |-> "int", value |-> 2]
    /\ Len(cnt.events) = 2
    /\ event_codes(cnt.events) = {0, 1}
    /\ cnt.events[1].StartSampleIndex = cnt.events[2].StartSampleIndex
    /\ Len(cnt.stim) = 2

\* C26: after a to_mne that succeeded, with copy=False no node from the
\* container down holds data; with copy=True the container holds data and
\* so does every node that held data before; the drop sets of the container
\* and of the nodes below it are as before the call.
C26_CopyKeepsData ==
    [][\A n \in Nodes :
          (last'.op = "to_mne" /\ last'.node = n /\ err' = NoErr)
              => /\ ~cnt'.copy => \A m \in Subtree(n) : data'[m] = NoData
                 /\ cnt'.copy
                       => /\ data'[n] # NoData
                          /\ \A m \in Nodes : data[m] # NoData => data'[m] # NoData
                 /\ \A m \in Subtree(n) : dropped'[m] = dropped[m]
      ]_vars

\* to_mne(copy=False) succeeded on a Session that held data and had dropped
\* a channel
C26_ClearedAfterExport ==
    /\ last.op = "to_mne"
    /\ last.node \in Sessions
    /\ err = NoErr
    /\ ~cnt.copy
    /\ steps = 3
    /\ dropped[last.node] # {}
    /\ loads = {}
    /\ \A m \in Subtree(last.node) : data[m] = NoData

\* the data of Phase p on graph S is the rows of p itself, in their order:
\* it has as many rows as the file of p, and a sample in row r is a sample of
\* row r of p
OwnRows(S, p) ==
    /\ S.data[p].buf # 0
    /\ Len(ArrayOf(S, p)) = FileSamples(p)
    /\ \A r \in 1..Len(ArrayOf(S, p)) :
          \A c \in 1..Len(ArrayOf(S, p)[r]) :
              ArrayOf(S, p)[r][c][1] \in Phases
                  => /\ ArrayOf(S, p)[r][c][1] = p
                     /\ ArrayOf(S, p)[r][c][2] = r

\* the views of the phases of parts follow each other in ascending phase number
AscendingViews(parts) ==
    \A p, q \in parts :
        (SessionOf(p) = SessionOf(q) /\ PhaseLess(p, q)) => data[p].hi <= data[q].lo

\* C27: when a read of Session.data computes the data (the Session held none)
\* and succeeds, the Session's data is a whole new buffer, every Phase of the
\* Session has data that is a view of that buffer, the views' row ranges are
\* contiguous, disjoint, in ascending phase number and cover all rows, and
\* each view holds the rows of its own Phase, in every order of self.phases
\* and whether a Phase held data before or not.
C27_SessionViews ==
    [][\A s \in Sessions :
          (/\ last'.op = "data"
           /\ last'.node = s
           /\ data[s].buf = 0
           /\ err' = NoErr)
              => /\ data'[s].buf # 0
                 /\ data'[s].lo = 0
                 /\ data'[s].hi = Len(heap'[data'[s].buf])
                 /\ Splits(PhasesOf(s), s)'
                 /\ AscendingViews(PhasesOf(s))'
                 /\ \A p \in PhasesOf(s) : OwnRows(Cur, p)'
      ]_vars

\* Session.data was computed for a Session that lists phase 2 before phase 1
\* and whose phase 1 held data already: phase 1 is row 0 of the buffer and
\* only phase 2 was read from its file
C27_ListedBackwards ==
    /\ last.op = "data"
    /\ last.node = "s1"
    /\ err = NoErr
    /\ phases["s1"] = <<"p12", "p11">>
    /\ loads = {"p12"}
    /\ data["p11"] = [buf |-> data["s1"].buf, lo |-> 0, hi |-> 1]
    /\ data["p12"] = [buf |-> data["s1"].buf, lo |-> 1, hi |-> 3]

\* the data of Session s on graph S is the rows of the Phases of s, in the
\* order of their numbers
OwnPhasesRows(S, s) ==
    /\ S.data[s].buf # 0
    /\ Len(ArrayOf(S, s)) = Len(Original(s))
    /\ \A r \in 1..Len(ArrayOf(S, s)) :
          \A c \in 1..Len(ArrayOf(S, s)[r]) :
              ArrayOf(S, s)[r][c][1] \in Phases
                  => /\ ArrayOf(S, s)[r][c][1] = Original(s)[r][1][1]
                     /\ ArrayOf(S, s)[r][c][2] = Original(s)[r][1][2]

\* C28: when a read of Recording.data computes the data and succeeds, the
\* data of every Phase is the rows of that Phase's own samples and the data
\* of every Session the rows of its own Phases, in every order of
\* self.sessions and of each self.phases.
C28_RecordingViews ==
    [][(/\ last'.op = "data"
        /\ last'.node = Rec
        /\ data[Rec].buf = 0
        /\ err' = NoErr)
          => /\ \A p \in Phases : OwnRows(Cur, p)'
             /\ \A s \in Sessions : OwnPhasesRows(Cur, s)'
      ]_vars

\* the rows of the data of n that the data of m is a view of: the range,
\* counted from the first row of n
RowRange(S, n, m) == <<S.data[m].lo - S.data[n].lo, S.data[m].hi - S.data[n].lo>>

\* the data of every node under n is a view of rows of the data of n
ChildrenAreViews(n) ==
    \A m \in Descendants(n) :
        /\ data[m].buf # 0
        /\ data[m].buf = data[n].buf
        /\ data[n].lo <= data[m].lo
        /\ data[m].hi <= data[n].hi

\* C29: drop_channels on a Session or a Recording that holds data, the data
\* of every node under it being a view of that data, leaves the data of every
\* node under it a view of the shrunk buffer over the row range it covered
\* before the call, in every order of self.sessions and of each self.phases.
C29_DropKeepsRows ==
    [][\A n \in {Rec} \cup Sessions :
          (/\ last'.op = "drop"
           /\ last'.node = n
           /\ data[n].buf # 0
           /\ ChildrenAreViews(n)
           /\ err' = NoErr)
              => \A m \in Descendants(n) :
                    /\ data'[m].buf = data'[n].buf
                    /\ RowRange(Cur, n, m)' = RowRange(Cur, n, m)
      ]_vars

\* C30: after drop_channels(names) on a Session or a Recording, with data
\* loaded or not, the drop set of that node holds every name of the call
\* that was one of the channels the node showed.
C30_OwnDropSet ==
    [][\A n \in {Rec} \cup Sessions :
          (/\ last'.op = "drop"
           /\ last'.node = n
           /\ channels(Cur, n).err = NoErr
           /\ err' = NoErr)
              => Resolved(n, last'.names) \subseteq dropped'[n]
      ]_vars

\* C31: a drop_channels call logs the "not dropping" warning only when one of
\* its names is not a channel the node it is called on shows, every warning
\* logged names such names only, and a call whose names are all channels the
\* node shows logs no warning, on a Phase, a Session and the Recording.
C31_WarnsUnresolvedOnly ==
    [][\A n \in Nodes :
          (/\ last'.op = "drop"
           /\ last'.node = n
           /\ channels(Cur, n).err = NoErr)
              => /\ \A w \in warned' : w[2] \subseteq last'.names \ Resolved(n, last'.names)
                 /\ AllVisible(n, last'.names) => warned' = {}
      ]_vars

\* the times of event e are its sample indexes divided by the sampling rate,
\* truncated
TimesFromIndexes(e, sampling_rate) ==
    /\ e.StartTime = e.StartSampleIndex \div sampling_rate
    /\ e.StopTime = e.StopSampleIndex \div sampling_rate

\* C32: every event of the table Session.events or Recording.events returns
\* has StartTime equal to its StartSampleIndex in that table divided by the
\* sampling rate, truncated, and StopTime likewise from StopSampleIndex.
C32_EventTimes ==
    /\ last.op = "session_events"
          => \A e \in Range(evOut) :
                TimesFromIndexes(e, evTree.sessions[last.node].sampling_rate)
    /\ (last.op = "recording_events" /\ err = NoErr)
          => \A e \in Range(evOut) :
                TimesFromIndexes(e, evTree.sessions[EventSessions[1]].sampling_rate)

\* C33: in every state reached by reads of data, clear_data and drop_channels
\* on any nodes, a Session or Recording and a node under it that both hold
\* data share one buffer: the data of the lower node is a view of rows of the
\* data of the upper one.
C33_DescendantsAreViews ==
    \A n \in {Rec} \cup Sessions :
        \A m \in Descendants(n) :
            (data[n].buf # 0 /\ data[m].buf # 0)
                => /\ data[m].buf = data[n].buf
                   /\ data[n].lo <= data[m].lo
                   /\ data[m].hi <= data[n].hi

\* C34: a drop_channels call reads no Phase from its file, and every node
\* from the one it is called on down that held no data before the call holds
\* none after it.
C34_DropLoadsNothing ==
    [][\A n \in Nodes :
          (last'.op = "drop" /\ last'.node = n)
              => /\ loads' = {}
                 /\ \A m \in Subtree(n) : data[m].buf = 0 => data'[m].buf = 0
      ]_vars

\* the channel lists the Sessions show now
SessionChannelLists == {channels_value(Cur, s) : s \in Sessions}

\* C35: in every state, a read of Recording.channels raises when two Sessions
\* show different channel lists (other names, another order or another
\* length), and returns the list the Sessions have in common without the
\* channels in the Recording's own drop set when they all show the same.
C35_ChannelsCompared ==
    /\ Cardinality(SessionChannelLists) > 1 => channels(Cur, Rec).err = "AssertionError"
    /\ Cardinality(SessionChannelLists) = 1
           => /\ channels(Cur, Rec).err = NoErr
              /\ \A common \in SessionChannelLists :
                    channels_value(Cur, Rec) = Without(common, dropped[Rec])

\* C36: Lazy.__get__ checks, computes and stores in separate steps without a
\* lock.  With one thread the compute function of an attribute runs at most
\* once and a stored value is never replaced; with two threads it runs at
\* most once per thread, a value is stored only by a thread that found
\* nothing stored when it checked, and every read returns what the thread
\* computed or found stored.
C36_UnlockedFirstAccess ==
    /\ [][\A o \in ThreadObjects :
             /\ lz'.calls[o] <= Cardinality(lz.threads)
             /\ Cardinality(lz.threads) = 1
                    => /\ lz'.calls[o] <= 1
                       /\ Lazy_has(lz, o) => lz'.slot[o] = lz.slot[o]
             /\ lz'.slot[o] # lz.slot[o]
                    => \E t \in lz.threads :
                          /\ lz.pc[t] = "setattr"
                          /\ lz.obj[t] = o
                          /\ lz'.slot[o] = lz.result[t]
      ]_vars
    /\ [](\A t \in lz.threads :
             /\ lz.err = NoErr
             /\ lz.out[t] # LzEmpty => lz.out[t].kind = "computed")

\* two threads read the same attribute for the first time: the compute
\* function ran twice, the threads returned different values, and the value
\* computed first is the one that stayed stored
C36_ComputedTwice ==
    /\ lz.threads = ThreadIds
    /\ lz.calls["c"] = 2
    /\ \A t \in ThreadIds : lz.pc[t] = "idle" /\ lz.left[t] = MaxAccesses - 1
    /\ lz.out[1] # lz.out[2]
    /\ lz.slot["c"] = [kind |-> "computed", n |-> 1]

\* as before, but the value computed last stayed stored
C36_LastComputedStored ==
    /\ lz.threads = ThreadIds
    /\ lz.calls["c"] = 2
    /\ \A t \in ThreadIds : lz.pc[t] = "idle" /\ lz.left[t] = MaxAccesses - 1
    /\ lz.out[1] # lz.out[2]
    /\ lz.slot["c"] = [kind |-> "computed", n |-> 2]

\* the samples (counted from 0) event i of the table is written to, and the
\* samples the search looks at: from the sample before its start, or 0
StimWritten(events, i, len) ==
    {k \in 0..(len - 1) : events[i].StartSampleIndex <= k /\ k <= events[i].StopSampleIndex}
StimWindow(events, i, len) ==
    {k \in 0..(len - 1) :
        /\ (IF events[i].StartSampleIndex # 0 THEN events[i].StartSampleIndex - 1 ELSE 0) <= k
        /\ k <= events[i].StopSampleIndex}

\* stim channel c is free for event i when the events before i that are on c,
\* by the placement f, wrote none of the samples the search looks at
StimFreeFor(events, f, i, c, len) ==
    \A j \in 1..(i - 1) :
        f[j] = c => StimWritten(events, j, len) \cap StimWindow(events, i, len) = {}

\* C37: after a to_mne that succeeded there is exactly one placement of the
\* events on the stim channels: each event, in the order of the table, is on
\* the lowest channel that is free for it, a channel exists only if an event
\* is on it or it is the first, no two events on one channel share a sample,
\* and every sample of every channel holds the code of the one event on that
\* channel written there, or 0: no sample holds a sum of codes, and every
\* event that starts no later than it stops is written on one channel.
C37_StimPlacement ==
    (last.op = "to_mne" /\ err = NoErr)
        => LET events == cnt.events
               stim == cnt.stim
               len == Len(stim[1])
           IN \E f \in [1..Len(events) -> 1..(Len(events) + 1)] :
                 /\ \A i \in 1..Len(events) :
                       /\ StimFreeFor(events, f, i, f[i], len)
                       /\ \A c \in 1..(f[i] - 1) : ~StimFreeFor(events, f, i, c, len)
                 /\ Len(stim) = MaxOf({1} \cup {f[i] : i \in 1..Len(events)})
                 /\ \A i, j \in 1..Len(events) :
                       (i # j /\ f[i] = f[j])
                           => StimWritten(events, i, len) \cap StimWritten(events, j, len) = {}
                 /\ \A c \in 1..Len(stim) :
                       \A k \in 0..(len - 1) :
                           LET on == {i \in 1..Len(events) :
                                         f[i] = c /\ k \in StimWritten(events, i, len)}
                           IN /\ Cardinality(on) <= 1
                              /\ on = {} => stim[c][k + 1] = 0
                              /\ \A i \in on : stim[c][k + 1] = events[i].Code

\* three events that share a sample went to three stim channels
C37_ThreeChannels ==
    /\ last.op = "to_mne"
    /\ err = NoErr
    /\ Len(cnt.events) = 3
    /\ Len(cnt.stim) = 3
    /\ \A i \in 1..3 : cnt.events[i].StartSampleIndex <= 1 /\ 1 <= cnt.events[i].StopSampleIndex
    /\ cnt.stim[3][2] # 0

\* C38: a read of Session.events or Recording.events that returns leaves
\* every cached events table of a Phase as read_neurone_events returned it,
\* a table cached before the read as it was, and the same aggregate read
\* again returns the same table.
C38_CachesUntouched ==
    [][(last'.op \in {"session_events", "recording_events"} /\ err' = NoErr) =>
         /\ \A pos \in EventPositions :
                /\ evCache[pos].cached => evCache'[pos] = evCache[pos]
                /\ evCache'[pos].cached =>
                       evCache'[pos].table = read_neurone_events(pos[1], pos[2])
         /\ last'.op = "session_events" =>
                \A i \in 1..Len(evTree.sessions) :
                    last'.node = i => Session_events(evCache', i) = evOut'
         /\ last'.op = "recording_events" => Recording_events(evCache') = evOut'
      ]_vars

\* a Session's or a Recording's events were read, and the table returned has
\* a row whose indexes are not those of the row in the Phase's cached table
C38_ShiftedCopy ==
    /\ last.op \in {"session_events", "recording_events"}
    /\ err = NoErr
    /\ \E k \in 1..Len(evOut) :
           LET e == evOut[k]
               pos == <<e.record[1], e.record[2]>>
           IN /\ evCache[pos].cached
              /\ e.StartSampleIndex # evCache[pos].table[e.record[3]].StartSampleIndex

\* C39: in every state reached by drop_channels calls, data reads and
\* clear_data calls on any nodes, the drop set of every Phase holds the drop
\* set of its Session, and the drop set of every Session holds the drop set of
\* the Recording.
C39_DropSetsNested ==
    /\ \A p \in Phases : dropped[SessionOf(p)] \subseteq dropped[p]
    /\ \A s \in Sessions : dropped[Rec] \subseteq dropped[s]

====
